---- MODULE Spec2Model ----
(***************************************************************************)
(* A model of the PV smart-grid analysis scripts:                          *)
(*   RampRate_W_per_s_SMARTGrid.py   (ramp rate, swing, battery sizing)    *)
(*   ANNUAL_ENERGY_PRODUCTION_graphs_and_SUMMARY.py (daily / annual kWh)   *)
(*   Aurora_PVlib_OSMMEPS_PVwatts.py (same ingestion and aggregation)      *)
(* Each script is a straight-line batch program over one data frame; the   *)
(* variable pc is the position of the script, and every action is one      *)
(* statement group of the script.  Floating-point values are modelled as   *)
(* exact rationals extended with NaN and the two infinities, with the      *)
(* IEEE-754 rules for division by zero that pandas/numpy follow.           *)
(***************************************************************************)
EXTENDS Integers, Sequences, FiniteSets, TLC

VARIABLES
    script,                     \* which script is running
    pc,                         \* position in the script
    tz,                         \* time zone of df.index
    idx,                        \* df.index: instants, seconds since 2024-01-01T00:00Z
    weather,                    \* the weather columns of df, one sample class per row
    AC_Power_kW_pvlib_total,    \* df column
    AC_Power_kW_osm_total,      \* df column
    Energy_kWh_pvlib,           \* df column (Energy_kWh_pvlib_5min in the ramp script)
    Energy_kWh_osm,             \* df column (Energy_kWh_osm_5min in the ramp script)
    time_diff_s,
    Ramp_W_per_s_pvlib,         \* df column
    Ramp_W_per_s_osm,           \* df column
    max_power_swing_5min_osm,
    max_swing_time_5min_osm,
    battery_power_rating_osm,
    recommended_energy_osm,
    analysis_date_osm,
    day_data_osm,               \* positions of df selected into day_data_osm
    max_power_swing_osm,
    battery_coverage,
    margin,
    daily_energy_pvlib,
    daily_energy_osm,
    annual_energy_pvlib,
    annual_energy_osm,
    csv,                        \* the weather columns of the file, as read
    df,                         \* the weather columns of df, by name
    seg,                        \* number of segments the loop has processed
    aoi,                        \* locals of the last loop iteration (Model B)
    poa_direct,
    poa_diffuse,
    poa_reflected,
    poa_total,
    source_file,                \* the script whose segment loop runs
    segments,                   \* field_segments as the script holds it
    smoothed_basic,             \* the day's smoothed trajectories
    smoothed_bell,
    battery_basic,              \* the day's battery power series
    battery_bell,
    bound,                      \* which of these four names are bound
    solar_position,             \* pvlib's apparent_zenith / azimuth, one record per row
    AC_Power_kW_pvwatts_total,  \* df column (Aurora script only)
    poa_irradiance,             \* locals of the last loop iteration (Model A)
    ac_power,                   \* Model A, W per segment (ac_power_pvlib in Aurora)
    actual_power,               \* Model B, W per segment (ac_power_osm in Aurora)
    max_ramp_time_osm,          \* label of the day's largest |ramp|
    max_ramp_value_osm,
    prev_time,                  \* names of the max-ramp event analysis
    power_before,
    power_after,
    power_change

-----------------------------------------------------------------------------
(* Bounds of the model *)

MaxLen == 3
MaxRows == 2
MaxWindow == 1

-----------------------------------------------------------------------------
(* float64 values: a reduced fraction n/d, or NaN, or +/- infinity *)

Abs(x) == IF x < 0 THEN -x ELSE x

RECURSIVE GCD(_, _)
GCD(a, b) == IF b = 0 THEN a ELSE GCD(b, a % b)

Fin(n, d) ==
    LET g == GCD(Abs(n), Abs(d))
        s == IF d < 0 THEN -1 ELSE 1
    IN  [k |-> "fin", n |-> (s * n) \div g, d |-> (s * d) \div g]

NaN  == [k |-> "nan", n |-> 0, d |-> 1]
PInf == [k |-> "inf", n |-> 1, d |-> 1]
NInf == [k |-> "inf", n |-> -1, d |-> 1]
Zero == Fin(0, 1)

IsNaN(x) == x.k = "nan"
IsFin(x) == x.k = "fin"
IsInf(x) == x.k = "inf"
Sign(x)  == IF x.n > 0 THEN 1 ELSE IF x.n < 0 THEN -1 ELSE 0
InfOf(s) == IF s > 0 THEN PInf ELSE NInf

FNeg(x) == [x EXCEPT !.n = -x.n]

FAbs(x) == [x EXCEPT !.n = Abs(x.n)]

FAdd(x, y) ==
    IF IsNaN(x) \/ IsNaN(y) THEN NaN
    ELSE IF IsInf(x) /\ IsInf(y) THEN (IF x.n = y.n THEN x ELSE NaN)
    ELSE IF IsInf(x) THEN x
    ELSE IF IsInf(y) THEN y
    ELSE LET g == GCD(x.d, y.d)
         IN  Fin(x.n * (y.d \div g) + y.n * (x.d \div g), (x.d \div g) * y.d)

FSub(x, y) == FAdd(x, FNeg(y))

FMul(x, y) ==
    IF IsNaN(x) \/ IsNaN(y) THEN NaN
    ELSE IF IsInf(x) \/ IsInf(y)
         THEN (IF Sign(x) * Sign(y) = 0 THEN NaN ELSE InfOf(Sign(x) * Sign(y)))
    ELSE LET g1 == GCD(Abs(x.n), y.d)
             g2 == GCD(Abs(y.n), x.d)
         IN  Fin((x.n \div g1) * (y.n \div g2), (x.d \div g2) * (y.d \div g1))

(* IEEE-754 division; a zero divisor here is always +0.0 *)
FDiv(x, y) ==
    IF IsNaN(x) \/ IsNaN(y) THEN NaN
    ELSE IF IsInf(x) /\ IsInf(y) THEN NaN
    ELSE IF IsInf(y) THEN Zero
    ELSE IF y.n = 0 THEN (IF Sign(x) = 0 THEN NaN ELSE InfOf(Sign(x)))
    ELSE IF IsInf(x) THEN InfOf(Sign(x) * Sign(y))
    ELSE FMul(x, Fin(y.d, y.n))

(* x < y; every comparison with NaN is false *)
FLt(x, y) ==
    IF IsNaN(x) \/ IsNaN(y) THEN FALSE
    ELSE IF IsInf(x) THEN x.n < 0 /\ ~(IsInf(y) /\ y.n < 0)
    ELSE IF IsInf(y) THEN y.n > 0
    ELSE x.n * y.d < y.n * x.d

FLe(x, y) == ~IsNaN(x) /\ ~IsNaN(y) /\ ~FLt(y, x)

-----------------------------------------------------------------------------
(* float64 values of the power conversion: exact decimals of any size.     *)
(* A natural number is the sequence of its base-10000 digits, low digit    *)
(* first, without leading zeros; a decimal is sign * digits / 10000^e.     *)

Base == 10000

RECURSIVE Limbs(_)
Limbs(n) == IF n = 0 THEN <<>> ELSE <<n % Base>> \o Limbs(n \div Base)

RECURSIVE Trim(_)
Trim(a) ==
    IF a = <<>> THEN <<>>
    ELSE IF a[Len(a)] = 0 THEN Trim(SubSeq(a, 1, Len(a) - 1))
    ELSE a

Low(a) == IF a = <<>> THEN 0 ELSE Head(a)
High(a) == IF a = <<>> THEN <<>> ELSE Tail(a)

RECURSIVE BigAddCarry(_, _, _)
BigAddCarry(a, b, c) ==
    IF a = <<>> /\ b = <<>> THEN Limbs(c)
    ELSE LET x == Low(a) + Low(b) + c
         IN  <<x % Base>> \o BigAddCarry(High(a), High(b), x \div Base)

BigAdd(a, b) == BigAddCarry(a, b, 0)

(* a - b - c for a >= b + c *)
RECURSIVE BigSubBorrow(_, _, _)
BigSubBorrow(a, b, c) ==
    IF a = <<>> THEN <<>>
    ELSE LET x == Low(a) - Low(b) - c
         IN  IF x < 0
             THEN <<x + Base>> \o BigSubBorrow(High(a), High(b), 1)
             ELSE <<x>> \o BigSubBorrow(High(a), High(b), 0)

BigSub(a, b) == Trim(BigSubBorrow(a, b, 0))

(* a < b *)
RECURSIVE BigLess(_, _)
BigLess(a, b) ==
    IF Len(a) # Len(b) THEN Len(a) < Len(b)
    ELSE IF a = <<>> THEN FALSE
    ELSE IF a[Len(a)] # b[Len(b)] THEN a[Len(a)] < b[Len(b)]
    ELSE BigLess(SubSeq(a, 1, Len(a) - 1), SubSeq(b, 1, Len(b) - 1))

(* a * m + c for a digit m *)
RECURSIVE BigMulDigit(_, _, _)
BigMulDigit(a, m, c) ==
    IF a = <<>> THEN Limbs(c)
    ELSE LET x == Head(a) * m + c
         IN  <<x % Base>> \o BigMulDigit(Tail(a), m, x \div Base)

RECURSIVE BigMul(_, _)
BigMul(a, b) ==
    IF a = <<>> \/ b = <<>> THEN <<>>
    ELSE BigAdd(Trim(BigMulDigit(a, Head(b), 0)),
                IF Tail(b) = <<>> THEN <<>> ELSE <<0>> \o BigMul(a, Tail(b)))

(* the decimal sign * m / 10000^e without trailing zero digits *)
RECURSIVE Dec(_, _, _)
Dec(neg, m, e) ==
    IF m = <<>> THEN [k |-> "dec", neg |-> FALSE, m |-> <<>>, e |-> 0]
    ELSE IF e > 0 /\ Head(m) = 0 THEN Dec(neg, Tail(m), e - 1)
    ELSE [k |-> "dec", neg |-> neg, m |-> m, e |-> e]

DecInt(n) == Dec(n < 0, Limbs(Abs(n)), 0)

(* the digits of x at scale e >= x.e *)
RECURSIVE Shifted(_, _)
Shifted(m, by) == IF by = 0 \/ m = <<>> THEN m ELSE <<0>> \o Shifted(m, by - 1)

DNeg(x) == Dec(~x.neg, x.m, x.e)

DAdd(x, y) ==
    LET e == IF x.e > y.e THEN x.e ELSE y.e
        a == Shifted(x.m, e - x.e)
        b == Shifted(y.m, e - y.e)
    IN  IF x.neg = y.neg THEN Dec(x.neg, BigAdd(a, b), e)
        ELSE IF BigLess(a, b) THEN Dec(y.neg, BigSub(b, a), e)
        ELSE Dec(x.neg, BigSub(a, b), e)

DSub(x, y) == DAdd(x, DNeg(y))

DMul(x, y) == Dec(x.neg # y.neg, BigMul(x.m, y.m), x.e + y.e)

(* n / d for d = 2^a * 5^b *)
RECURSIVE DecQuot(_, _, _, _)
DecQuot(neg, m, d, e) ==
    IF d = 1 THEN Dec(neg, m, e)
    ELSE LET g == GCD(d, Base)
         IN  DecQuot(neg, Trim(BigMulDigit(m, Base \div g, 0)), d \div g, e + 1)

(* the decimal of a finite float with a decimal expansion *)
DecOf(x) == DecQuot(x.n < 0, Limbs(Abs(x.n)), x.d, 0)

DecFrac(n, d) == DecOf(Fin(n, d))

DZero == DecInt(0)

-----------------------------------------------------------------------------
(* pandas Series operations, by position *)

Range(s) == {s[i] : i \in DOMAIN s}

(* Series.diff(): NaN at the first position *)
Diff(s) == [i \in DOMAIN s |-> IF i = 1 THEN NaN ELSE FSub(s[i], s[i - 1])]

SeriesAbs(s) == [i \in DOMAIN s |-> FAbs(s[i])]

SeriesScale(s, c) == [i \in DOMAIN s |-> FMul(s[i], c)]

SeriesDiv(s, t) == [i \in DOMAIN s |-> FDiv(s[i], t[i])]

(* positions holding a value that skipna keeps *)
NotNA(s) == {i \in DOMAIN s : ~IsNaN(s[i])}

(* Series.max(): skips NaN; NaN when nothing is left *)
SeriesMax(s) ==
    IF NotNA(s) = {} THEN NaN
    ELSE LET i == CHOOSE i \in NotNA(s) : \A j \in NotNA(s) : FLe(s[j], s[i])
         IN  s[i]

(* position of the first maximum, skipping NaN; 0 when nothing is left *)
ArgMax(s) ==
    IF NotNA(s) = {} THEN 0
    ELSE CHOOSE i \in NotNA(s) :
            /\ \A j \in NotNA(s) : FLe(s[j], s[i])
            /\ \A j \in NotNA(s) : j < i => FLt(s[j], s[i])

RECURSIVE SeriesSumFrom(_, _)
SeriesSumFrom(s, i) ==
    IF i > Len(s) THEN Zero
    ELSE IF IsNaN(s[i]) THEN SeriesSumFrom(s, i + 1)
    ELSE FAdd(s[i], SeriesSumFrom(s, i + 1))

(* Series.sum(): skips NaN; 0 for an empty series *)
SeriesSum(s) == SeriesSumFrom(s, 1)

-----------------------------------------------------------------------------
(* time: instants are seconds since 2024-01-01T00:00:00Z *)

SecondsPerDay == 24 * 60 * 60

UtcOffset(zone) == IF zone = "Africa/Johannesburg" THEN 7200 ELSE 0

(* calendar day (days since 2024-01-01) of instant t on the wall clock of zone *)
DateOf(t, zone) == (t + UtcOffset(zone)) \div SecondsPerDay

IsSorted(ix) == \A i \in 1..(Len(ix) - 1) : ix[i] <= ix[i + 1]

Perms(n) == {p \in [1..n -> 1..n] : \A i, j \in 1..n : p[i] = p[j] => i = j}

Take(s, p) == [i \in DOMAIN p |-> s[p[i]]]

(* the orders an argsort of ix may return: the sort is not stable *)
SortOrders(ix) == {p \in Perms(Len(ix)) : IsSorted(Take(ix, p))}

IntSeries(ix) == [i \in DOMAIN ix |-> Fin(ix[i], 1)]

(* df.index.to_series().diff().dt.total_seconds().fillna(0) *)
TimeDiffS(ix) ==
    LET d == Diff(IntSeries(ix))
    IN  [i \in DOMAIN d |-> IF IsNaN(d[i]) THEN Zero ELSE d[i]]

-----------------------------------------------------------------------------
(* Ramp & swing analysis: RampRate_W_per_s_SMARTGrid.py *)

(* timestamps of the weather file that survive the 2024 filter: two samples *)
(* 5 minutes apart around 22:00Z (local midnight) and two around 24:00Z     *)
RampTimes == {78900, 79200, 86100, 86400}

(* the weather of one row, by class; the segment loop is elementwise, so   *)
(* a row's system power (kW) under Model A and Model B depends on its own  *)
(* weather only                                                            *)
WeatherClasses == {"night", "cloud", "clear"}

(* rows whose power is not finite: a blank irradiance cell (read as NaN)   *)
(* gives NaN in both models; an infinite irradiance gives poa = inf and    *)
(* 1 + temp_coeff * inf = -inf, so -inf in both models                     *)
NonFiniteClasses == {"gap", "inf"}

ModelPower(w) ==
    CASE w = "night" -> [pvlib |-> Fin(0, 1), osm |-> Fin(0, 1)]
      [] w = "cloud" -> [pvlib |-> Fin(3, 1), osm |-> Fin(2, 1)]
      [] w = "clear" -> [pvlib |-> Fin(4, 1), osm |-> Fin(5, 1)]
      [] w = "gap"   -> [pvlib |-> NaN, osm |-> NaN]
      [] w = "inf"   -> [pvlib |-> NInf, osm |-> NInf]

Rows(times, classes) == {[t |-> t, w |-> w] : t \in times, w \in classes}

Frames(rows, n) == UNION {[1..m -> rows] : m \in 0..n}

NaT == [k |-> "nat", t |-> 0]
Stamp(t) == [k |-> "ts", t |-> t]

(* power * (5/60) *)
EnergyOf(power) == SeriesScale(power, Fin(5, 60))

(* a ramp that takes every interval to be the nominal 300 s *)
RampRateNominal(power, td) == SeriesScale(Diff(power), Fin(1000, 300))

(* power.diff() * 1000 / time_diff_s *)
RampRate(power, td) == SeriesDiv(SeriesScale(Diff(power), Fin(1000, 1)), td)

(* a swing that forgets the absolute value *)
MaxPowerSwingSigned(power) == SeriesMax(Diff(power))

(* power.diff().abs().max() *)
MaxPowerSwing(power) == SeriesMax(SeriesAbs(Diff(power)))

(* power.diff().abs().idxmax(): the index label of the first maximum *)
MaxSwingTime(ix, power) ==
    LET i == ArgMax(SeriesAbs(Diff(power)))
    IN  IF i = 0 THEN NaT ELSE Stamp(ix[i])

(* a rating without the 20% margin *)
BatteryPowerRatingNoMargin(swing) == swing

BatteryPowerRating(swing) == FMul(swing, Fin(12, 10))

RecommendedEnergy(rating) == FMul(rating, Fin(20, 10))

(* positions i of df with df.index.date[i] = date, in order *)
DayRows(ix, zone, date) ==
    LET keep(i) == DateOf(ix[i], zone) = date
    IN  SelectSeq([i \in DOMAIN ix |-> i], keep)

(* a coverage with the ratio inverted *)
BatteryCoverageInverted(rating, swing) == FMul(FDiv(swing, rating), Fin(100, 1))

BatteryCoverage(rating, swing) == FMul(FDiv(rating, swing), Fin(100, 1))

Margin(coverage) == FSub(coverage, Fin(100, 1))

rampVars == <<time_diff_s, Ramp_W_per_s_pvlib, Ramp_W_per_s_osm>>
swingVars == <<max_power_swing_5min_osm, max_swing_time_5min_osm>>
sizingVars == <<battery_power_rating_osm, recommended_energy_osm>>
dayVars == <<analysis_date_osm, day_data_osm, max_power_swing_osm>>
advisorVars == <<smoothed_basic, smoothed_bell, battery_basic, battery_bell, bound>>
eventVars == <<max_ramp_time_osm, max_ramp_value_osm, prev_time, power_before, power_after, power_change>>
coverVars == <<battery_coverage, margin, advisorVars, eventVars>>
frameVars == <<tz, idx, weather, AC_Power_kW_pvlib_total, AC_Power_kW_osm_total>>
energyVars == <<Energy_kWh_pvlib, Energy_kWh_osm>>
aggVars == <<daily_energy_pvlib, daily_energy_osm, annual_energy_pvlib, annual_energy_osm>>
analysisVars == <<rampVars, swingVars, sizingVars, dayVars, coverVars>>
poaVars == <<aoi, poa_direct, poa_diffuse, poa_reflected, poa_total>>
powerVars == <<poa_irradiance, ac_power, actual_power>>
engineVars == <<csv, df, seg, poaVars, source_file, segments, solar_position,
                AC_Power_kW_pvwatts_total, powerVars>>

vars == <<script, pc, frameVars, energyVars, aggVars, analysisVars, engineVars>>

(* degrees with five decimals, as in field_segments *)
Deg(whole, frac) == Fin(whole * 100000 + frac, 100000)

field_segments ==
    <<[tilt |-> Deg(5, 60000), azimuth |-> Deg(319, 88214), num_modules |-> 32],
      [tilt |-> Deg(2, 80000), azimuth |-> Deg(146, 61220), num_modules |-> 32],
      [tilt |-> Deg(5, 0),     azimuth |-> Deg(326, 42346), num_modules |-> 32],
      [tilt |-> Deg(3, 0),     azimuth |-> Deg(315, 20587), num_modules |-> 32],
      [tilt |-> Deg(3, 0),     azimuth |-> Deg(134, 65346), num_modules |-> 64]>>

(* the values of the names the script has not bound yet *)
Unbound ==
    /\ time_diff_s = <<>>
    /\ Ramp_W_per_s_pvlib = <<>>
    /\ Ramp_W_per_s_osm = <<>>
    /\ max_power_swing_5min_osm = NaN
    /\ max_swing_time_5min_osm = NaT
    /\ battery_power_rating_osm = NaN
    /\ recommended_energy_osm = NaN
    /\ analysis_date_osm = 0
    /\ day_data_osm = <<>>
    /\ max_power_swing_osm = NaN
    /\ battery_coverage = NaN
    /\ margin = NaN
    /\ max_ramp_time_osm = NaT
    /\ max_ramp_value_osm = NaN
    /\ prev_time = NaT
    /\ power_before = NaN
    /\ power_after = NaN
    /\ power_change = NaN
    /\ smoothed_basic = <<>>
    /\ smoothed_bell = <<>>
    /\ battery_basic = <<>>
    /\ battery_bell = <<>>
    /\ bound = {}
    /\ Energy_kWh_pvlib = <<>>
    /\ Energy_kWh_osm = <<>>
    /\ daily_energy_pvlib = <<>>
    /\ daily_energy_osm = <<>>
    /\ annual_energy_pvlib = NaN
    /\ annual_energy_osm = NaN

(* the scripts that take the weather by class carry no column table *)
NoColumns ==
    /\ csv = <<>>
    /\ df = <<>>
    /\ seg = 0
    /\ aoi = <<>>
    /\ poa_direct = <<>>
    /\ poa_diffuse = <<>>
    /\ poa_reflected = <<>>
    /\ poa_total = <<>>
    /\ solar_position = <<>>
    /\ AC_Power_kW_pvwatts_total = <<>>
    /\ poa_irradiance = <<>>
    /\ ac_power = <<>>
    /\ actual_power = <<>>

(* the frame after the segment loop (line 100): a UTC index in file order *)
InitRamp ==
    /\ script = "ramp"
    /\ source_file = "RampRate_W_per_s_SMARTGrid.py"
    /\ segments = field_segments
    /\ pc = "energy5"
    /\ tz = "UTC"
    /\ \E f \in Frames(Rows(RampTimes, WeatherClasses), MaxLen) :
        /\ idx = [i \in DOMAIN f |-> f[i].t]
        /\ weather = [i \in DOMAIN f |-> f[i].w]
        /\ AC_Power_kW_pvlib_total = [i \in DOMAIN f |-> ModelPower(f[i].w).pvlib]
        /\ AC_Power_kW_osm_total = [i \in DOMAIN f |-> ModelPower(f[i].w).osm]
    /\ Unbound
    /\ NoColumns

(* an energy calculation that scales the power columns in place *)
Energy5minInPlace ==
    /\ script = "ramp" /\ pc = "energy5"
    /\ AC_Power_kW_pvlib_total' = EnergyOf(AC_Power_kW_pvlib_total)
    /\ AC_Power_kW_osm_total' = EnergyOf(AC_Power_kW_osm_total)
    /\ Energy_kWh_pvlib' = EnergyOf(AC_Power_kW_pvlib_total)
    /\ Energy_kWh_osm' = EnergyOf(AC_Power_kW_osm_total)
    /\ pc' = "sort"
    /\ UNCHANGED <<script, engineVars, aggVars, tz, idx, weather, rampVars, swingVars, sizingVars, dayVars,
                   coverVars>>

(* lines 104-105 *)
Energy5min ==
    /\ script = "ramp" /\ pc = "energy5"
    /\ Energy_kWh_pvlib' = EnergyOf(AC_Power_kW_pvlib_total)
    /\ Energy_kWh_osm' = EnergyOf(AC_Power_kW_osm_total)
    /\ pc' = "sort"
    /\ UNCHANGED <<script, engineVars, aggVars, frameVars, rampVars, swingVars, sizingVars, dayVars, coverVars>>

(* a sort that leaves the Model B power column in file order *)
SortIndexButOsm ==
    /\ script = "ramp" /\ pc = "sort"
    /\ \E p \in SortOrders(idx) :
        /\ IsSorted(idx) => p = [i \in DOMAIN idx |-> i]
        /\ idx' = Take(idx, p)
        /\ weather' = Take(weather, p)
        /\ AC_Power_kW_pvlib_total' = Take(AC_Power_kW_pvlib_total, p)
        /\ AC_Power_kW_osm_total' = AC_Power_kW_osm_total
        /\ Energy_kWh_pvlib' = Take(Energy_kWh_pvlib, p)
        /\ Energy_kWh_osm' = Take(Energy_kWh_osm, p)
    /\ pc' = "ramp"
    /\ UNCHANGED <<script, engineVars, aggVars, tz, rampVars, swingVars, sizingVars, dayVars, coverVars>>

(* line 135: df = df.sort_index(); a monotonic index is left as it is *)
SortIndex ==
    /\ script = "ramp" /\ pc = "sort"
    /\ \E p \in SortOrders(idx) :
        /\ IsSorted(idx) => p = [i \in DOMAIN idx |-> i]
        /\ idx' = Take(idx, p)
        /\ weather' = Take(weather, p)
        /\ AC_Power_kW_pvlib_total' = Take(AC_Power_kW_pvlib_total, p)
        /\ AC_Power_kW_osm_total' = Take(AC_Power_kW_osm_total, p)
        /\ Energy_kWh_pvlib' = Take(Energy_kWh_pvlib, p)
        /\ Energy_kWh_osm' = Take(Energy_kWh_osm, p)
    /\ pc' = "ramp"
    /\ UNCHANGED <<script, engineVars, aggVars, tz, rampVars, swingVars, sizingVars, dayVars, coverVars>>

(* lines 138-142 *)
ComputeRamp ==
    /\ script = "ramp" /\ pc = "ramp"
    /\ time_diff_s' = TimeDiffS(idx)
    /\ Ramp_W_per_s_pvlib' = RampRate(AC_Power_kW_pvlib_total, TimeDiffS(idx))
    /\ Ramp_W_per_s_osm' = RampRate(AC_Power_kW_osm_total, TimeDiffS(idx))
    /\ pc' = "ramp_osm"
    /\ UNCHANGED <<script, engineVars, aggVars, frameVars, energyVars, swingVars, sizingVars, dayVars, coverVars>>

(* lines 169-170 *)
RecomputeRampOsm ==
    /\ script = "ramp" /\ pc = "ramp_osm"
    /\ time_diff_s' = TimeDiffS(idx)
    /\ Ramp_W_per_s_osm' = RampRate(AC_Power_kW_osm_total, TimeDiffS(idx))
    /\ pc' = "swing"
    /\ UNCHANGED <<script, engineVars, aggVars, frameVars, energyVars, Ramp_W_per_s_pvlib, swingVars,
                   sizingVars, dayVars, coverVars>>

(* lines 173-174, a series with at least one consecutive pair *)
FindSwing ==
    /\ script = "ramp" /\ pc = "swing"
    /\ Len(idx) >= 2
    /\ max_power_swing_5min_osm' = MaxPowerSwing(AC_Power_kW_osm_total)
    /\ max_swing_time_5min_osm' = MaxSwingTime(idx, AC_Power_kW_osm_total)
    /\ pc' = "battery"
    /\ UNCHANGED <<script, engineVars, aggVars, frameVars, energyVars, rampVars, sizingVars, dayVars, coverVars>>

(* lines 173-174, a one-sample series: every difference is NaN, and idxmax  *)
(* of an all-NaN series returns NaN or raises, by pandas version            *)
FindSwingAllNaN ==
    /\ script = "ramp" /\ pc = "swing"
    /\ Len(idx) = 1
    /\ max_power_swing_5min_osm' = MaxPowerSwing(AC_Power_kW_osm_total)
    /\ \/ /\ max_swing_time_5min_osm' = MaxSwingTime(idx, AC_Power_kW_osm_total)
          /\ pc' = "battery"
       \/ /\ UNCHANGED max_swing_time_5min_osm
          /\ pc' = "fault"
    /\ UNCHANGED <<script, engineVars, aggVars, frameVars, energyVars, rampVars, sizingVars, dayVars, coverVars>>

(* lines 173-174, an empty series: max() is NaN, idxmax() raises ValueError *)
FindSwingEmpty ==
    /\ script = "ramp" /\ pc = "swing"
    /\ Len(idx) = 0
    /\ max_power_swing_5min_osm' = MaxPowerSwing(AC_Power_kW_osm_total)
    /\ pc' = "fault"
    /\ UNCHANGED <<script, engineVars, aggVars, frameVars, energyVars, rampVars, max_swing_time_5min_osm,
                   sizingVars, dayVars, coverVars>>

(* lines 179-180 *)
SizeBattery ==
    /\ script = "ramp" /\ pc = "battery"
    /\ battery_power_rating_osm' = BatteryPowerRating(max_power_swing_5min_osm)
    /\ recommended_energy_osm' =
           RecommendedEnergy(BatteryPowerRating(max_power_swing_5min_osm))
    /\ pc' = "day"
    /\ UNCHANGED <<script, engineVars, aggVars, frameVars, energyVars, rampVars, swingVars, dayVars, coverVars>>

(* lines 185-186 *)
SelectDay ==
    /\ script = "ramp" /\ pc = "day"
    /\ max_swing_time_5min_osm.k = "ts"
    /\ analysis_date_osm' = DateOf(max_swing_time_5min_osm.t, tz)
    /\ day_data_osm' = DayRows(idx, tz, DateOf(max_swing_time_5min_osm.t, tz))
    /\ pc' = "stats"
    /\ UNCHANGED <<script, engineVars, aggVars, frameVars, energyVars, rampVars, swingVars, sizingVars,
                   max_power_swing_osm, coverVars>>

(* line 185 on a NaN label: a float has no .date() *)
SelectDayFault ==
    /\ script = "ramp" /\ pc = "day"
    /\ max_swing_time_5min_osm.k = "nat"
    /\ pc' = "fault"
    /\ UNCHANGED <<script, engineVars, aggVars, frameVars, energyVars, rampVars, swingVars, sizingVars,
                   dayVars, coverVars>>

(* line 329 *)
DayStats ==
    /\ script = "ramp" /\ pc = "stats"
    /\ max_power_swing_osm' = MaxPowerSwing(Take(AC_Power_kW_osm_total, day_data_osm))
    /\ pc' = "coverage"
    /\ UNCHANGED <<script, engineVars, aggVars, frameVars, energyVars, rampVars, swingVars, sizingVars,
                   analysis_date_osm, day_data_osm, coverVars>>

(* lines 380-381 *)
Coverage ==
    /\ script = "ramp" /\ pc = "coverage"
    /\ battery_coverage' = BatteryCoverage(battery_power_rating_osm, max_power_swing_5min_osm)
    /\ margin' = Margin(BatteryCoverage(battery_power_rating_osm, max_power_swing_5min_osm))
    /\ pc' = "done"
    /\ UNCHANGED <<script, engineVars, aggVars, frameVars, energyVars, rampVars, swingVars, sizingVars, dayVars,
                   advisorVars, eventVars>>

NextRamp ==
    \/ Energy5min
    \/ SortIndex
    \/ ComputeRamp
    \/ RecomputeRampOsm
    \/ FindSwing
    \/ FindSwingAllNaN
    \/ FindSwingEmpty
    \/ SizeBattery
    \/ SelectDay
    \/ SelectDayFault
    \/ DayStats
    \/ Coverage

SpecRamp == InitRamp /\ [][NextRamp]_vars

-----------------------------------------------------------------------------
(* The whole of RampRate_W_per_s_SMARTGrid.py: the segment loop, then the   *)
(* analysis above, then the smoothing comparison                            *)

RECURSIVE ModulesUpTo(_)
ModulesUpTo(k) == IF k = 0 THEN 0 ELSE ModulesUpTo(k - 1) + field_segments[k].num_modules

(* the part of a row's system power that segment k contributes: the        *)
(* segments differ by a few degrees of tilt, the share is by module count  *)
SegmentShare(k, power) ==
    FMul(power, Fin(field_segments[k].num_modules, ModulesUpTo(Len(field_segments))))

(* the file as loaded; no total, energy or ramp column exists yet *)
InitScript ==
    /\ script = "ramp"
    /\ source_file = "RampRate_W_per_s_SMARTGrid.py"
    /\ segments = field_segments
    /\ pc = "totals"
    /\ tz = "UTC"
    /\ \E f \in Frames(Rows(RampTimes, WeatherClasses), MaxLen) :
        /\ idx = [i \in DOMAIN f |-> f[i].t]
        /\ weather = [i \in DOMAIN f |-> f[i].w]
    /\ AC_Power_kW_pvlib_total = <<>>
    /\ AC_Power_kW_osm_total = <<>>
    /\ Unbound
    /\ NoColumns

(* lines 48-49 *)
ZeroTotals ==
    /\ script = "ramp" /\ pc = "totals"
    /\ AC_Power_kW_pvlib_total' = [i \in DOMAIN idx |-> Zero]
    /\ AC_Power_kW_osm_total' = [i \in DOMAIN idx |-> Zero]
    /\ pc' = "loop"
    /\ UNCHANGED <<script, engineVars, aggVars, tz, idx, weather, energyVars, analysisVars>>

(* lines 52-100: one iteration of the loop adds the segment's power to     *)
(* both totals                                                             *)
SegmentStep ==
    /\ script = "ramp" /\ pc = "loop"
    /\ seg < Len(segments)
    /\ AC_Power_kW_pvlib_total' =
           [i \in DOMAIN idx |->
               FAdd(AC_Power_kW_pvlib_total[i],
                    SegmentShare(seg + 1, ModelPower(weather[i]).pvlib))]
    /\ AC_Power_kW_osm_total' =
           [i \in DOMAIN idx |->
               FAdd(AC_Power_kW_osm_total[i],
                    SegmentShare(seg + 1, ModelPower(weather[i]).osm))]
    /\ seg' = seg + 1
    /\ pc' = pc
    /\ UNCHANGED <<script, aggVars, tz, idx, weather, energyVars, analysisVars, csv, df, poaVars,
                   source_file, segments, solar_position, AC_Power_kW_pvwatts_total, powerVars>>

(* line 52: after the last segment the script goes on to line 104 *)
LoopExit ==
    /\ script = "ramp" /\ pc = "loop"
    /\ seg = Len(segments)
    /\ pc' = "energy5"
    /\ UNCHANGED <<script, frameVars, energyVars, aggVars, analysisVars, engineVars>>

(* the names lines 430-515 read that lines 1-429 were to bind *)
SmoothingNames == {"smoothed_basic", "smoothed_bell", "battery_basic", "battery_bell"}

(* lines 404-433: the comparison plot reads smoothed_basic; a name that is *)
(* not bound raises NameError                                              *)
PlotComparison ==
    /\ script = "ramp" /\ pc = "done"
    /\ pc' = IF SmoothingNames \subseteq bound THEN "metrics" ELSE "name_error"
    /\ UNCHANGED <<script, frameVars, energyVars, aggVars, analysisVars, engineVars>>

NextScript ==
    \/ ZeroTotals
    \/ SegmentStep
    \/ LoopExit
    \/ NextRamp
    \/ PlotComparison

SpecScript == InitScript /\ [][NextScript]_vars

-----------------------------------------------------------------------------
(* Grid-Impact Advisor, smoothing and dispatch: the script reads            *)
(* smoothed_basic, smoothed_bell, battery_basic and battery_bell (lines     *)
(* 430-515) and holds no statement that computes them; the stage is the     *)
(* Smoother capability of the design notes: moving-average(window) and      *)
(* weighted-kernel(window, weight-function), centred, cut at the day's ends *)

HalfWidths == 0..MaxWindow

(* the weight of a sample at distance d from the centre *)
Weight(kind, h, d) == IF kind = "moving-average" THEN 1 ELSE h + 1 - d

RECURSIVE KernelSum(_, _, _, _, _, _)
KernelSum(raw, kind, h, i, j, hi) ==
    IF j > hi THEN Zero
    ELSE FAdd(FMul(Fin(Weight(kind, h, Abs(i - j)), 1), raw[j]),
              KernelSum(raw, kind, h, i, j + 1, hi))

RECURSIVE WeightSum(_, _, _, _, _)
WeightSum(kind, h, i, j, hi) ==
    IF j > hi THEN 0
    ELSE Weight(kind, h, Abs(i - j)) + WeightSum(kind, h, i, j + 1, hi)

(* the smoothed trajectory of a raw trace *)
Smoothed(raw, kind, h) ==
    [i \in DOMAIN raw |->
        LET lo == IF i - h < 1 THEN 1 ELSE i - h
            hi == IF i + h > Len(raw) THEN Len(raw) ELSE i + h
        IN  FDiv(KernelSum(raw, kind, h, i, lo, hi),
                 Fin(WeightSum(kind, h, i, lo, hi), 1))]

(* a battery power with the sign reversed *)
BatteryPowerReversed(raw, smoothed) ==
    [i \in DOMAIN raw |-> FSub(smoothed[i], raw[i])]

(* battery power = raw_power - smoothed_power *)
BatteryPower(raw, smoothed) ==
    [i \in DOMAIN raw |-> FSub(raw[i], smoothed[i])]

(* the raw power trace of the analysis day *)
DayPower == Take(AC_Power_kW_osm_total, day_data_osm)

Smooth ==
    /\ script = "ramp" /\ pc = "done"
    /\ \E h1, h2 \in HalfWidths :
        /\ smoothed_basic' = Smoothed(DayPower, "moving-average", h1)
        /\ smoothed_bell' = Smoothed(DayPower, "weighted-kernel", h2)
    /\ bound' = bound \cup {"smoothed_basic", "smoothed_bell"}
    /\ pc' = "dispatch"
    /\ UNCHANGED <<script, engineVars, aggVars, frameVars, energyVars, rampVars, swingVars, sizingVars, dayVars,
                   battery_coverage, margin, battery_basic, battery_bell, eventVars>>

Dispatch ==
    /\ script = "ramp" /\ pc = "dispatch"
    /\ battery_basic' = BatteryPower(DayPower, smoothed_basic)
    /\ battery_bell' = BatteryPower(DayPower, smoothed_bell)
    /\ bound' = bound \cup {"battery_basic", "battery_bell"}
    /\ pc' = "advised"
    /\ UNCHANGED <<script, engineVars, aggVars, frameVars, energyVars, rampVars, swingVars, sizingVars, dayVars,
                   battery_coverage, margin, smoothed_basic, smoothed_bell, eventVars>>

NextAdvisor ==
    \/ NextRamp
    \/ Smooth
    \/ Dispatch

SpecAdvisor == InitRamp /\ [][NextAdvisor]_vars

-----------------------------------------------------------------------------
(* The max-ramp event of the analysis day: lines 283-284 and 384-402 of     *)
(* RampRate_W_per_s_SMARTGrid.py. The statements read day_data_osm and bind *)
(* names that nothing else reads; they are taken here after line 381.       *)

(* period_end values 5 minutes apart with one sample between them, and one *)
(* sample of the next UTC day                                              *)
EventTimes == {78900, 79050, 79200, 86400}

(* the frame after the segment loop, sampled at EventTimes *)
InitEvent ==
    /\ script = "ramp"
    /\ source_file = "RampRate_W_per_s_SMARTGrid.py"
    /\ segments = field_segments
    /\ pc = "energy5"
    /\ tz = "UTC"
    /\ \E f \in Frames(Rows(EventTimes, WeatherClasses), MaxLen) :
        /\ idx = [i \in DOMAIN f |-> f[i].t]
        /\ weather = [i \in DOMAIN f |-> f[i].w]
        /\ AC_Power_kW_pvlib_total = [i \in DOMAIN f |-> ModelPower(f[i].w).pvlib]
        /\ AC_Power_kW_osm_total = [i \in DOMAIN f |-> ModelPower(f[i].w).osm]
    /\ Unbound
    /\ NoColumns

(* day_data_osm.loc[t]: the rows of the analysis day labelled t *)
DayLoc(t) == {j \in Range(day_data_osm) : idx[j] = t}

(* position in day_data_osm of day_data_osm['Ramp_W_per_s_osm'].abs().idxmax() *)
DayArgMaxRamp == ArgMax(SeriesAbs(Take(Ramp_W_per_s_osm, day_data_osm)))

(* lines 283-284: the label of the first largest |ramp| of the day, and the *)
(* ramp stored at that label                                                *)
FindMaxRamp ==
    /\ script = "ramp" /\ pc = "done"
    /\ DayArgMaxRamp # 0
    /\ LET j == day_data_osm[DayArgMaxRamp]
       IN  /\ Cardinality(DayLoc(idx[j])) = 1
           /\ max_ramp_time_osm' = Stamp(idx[j])
           /\ max_ramp_value_osm' = Ramp_W_per_s_osm[j]
    /\ pc' = "event"
    /\ UNCHANGED <<script, engineVars, aggVars, frameVars, energyVars, rampVars, swingVars, sizingVars, dayVars,
                   battery_coverage, margin, advisorVars, prev_time, power_before, power_after, power_change>>

(* lines 283-288 when the label is carried by several rows: .loc returns a  *)
(* Series, and formatting it with :.1f raises TypeError                     *)
FindMaxRampDuplicate ==
    /\ script = "ramp" /\ pc = "done"
    /\ DayArgMaxRamp # 0
    /\ LET j == day_data_osm[DayArgMaxRamp]
       IN  /\ Cardinality(DayLoc(idx[j])) > 1
           /\ max_ramp_time_osm' = Stamp(idx[j])
    /\ pc' = "fault"
    /\ UNCHANGED <<script, engineVars, aggVars, frameVars, energyVars, rampVars, swingVars, sizingVars, dayVars,
                   battery_coverage, margin, advisorVars, max_ramp_value_osm, prev_time, power_before,
                   power_after, power_change>>

(* lines 283-284 when every ramp of the day is NaN: idxmax raises, or       *)
(* returns NaN and .loc[NaN] raises KeyError                                *)
FindMaxRampAllNaN ==
    /\ script = "ramp" /\ pc = "done"
    /\ DayArgMaxRamp = 0
    /\ pc' = "fault"
    /\ UNCHANGED <<script, frameVars, energyVars, aggVars, analysisVars, engineVars>>

(* lines 386-402, the sample 5 minutes before the event is in the day *)
AnalyzeEvent ==
    /\ script = "ramp" /\ pc = "event"
    /\ Cardinality(DayLoc(max_ramp_time_osm.t - 300)) = 1
    /\ LET before == CHOOSE j \in DayLoc(max_ramp_time_osm.t - 300) : TRUE
           after == CHOOSE j \in DayLoc(max_ramp_time_osm.t) : TRUE
       IN  /\ prev_time' = Stamp(max_ramp_time_osm.t - 300)
           /\ power_before' = AC_Power_kW_osm_total[before]
           /\ power_after' = AC_Power_kW_osm_total[after]
           /\ power_change' = FSub(AC_Power_kW_osm_total[after], AC_Power_kW_osm_total[before])
    /\ pc' = "event_done"
    /\ UNCHANGED <<script, engineVars, aggVars, frameVars, energyVars, rampVars, swingVars, sizingVars, dayVars,
                   battery_coverage, margin, advisorVars, max_ramp_time_osm, max_ramp_value_osm>>

(* lines 386-399 when several rows carry the label 5 minutes before:        *)
(* power_before is a Series, and formatting it with :.1f raises TypeError   *)
AnalyzeEventDuplicate ==
    /\ script = "ramp" /\ pc = "event"
    /\ Cardinality(DayLoc(max_ramp_time_osm.t - 300)) > 1
    /\ prev_time' = Stamp(max_ramp_time_osm.t - 300)
    /\ pc' = "fault"
    /\ UNCHANGED <<script, engineVars, aggVars, frameVars, energyVars, rampVars, swingVars, sizingVars, dayVars,
                   battery_coverage, margin, advisorVars, max_ramp_time_osm, max_ramp_value_osm,
                   power_before, power_after, power_change>>

(* line 386 when no sample of the day is labelled 5 minutes before *)
SkipEvent ==
    /\ script = "ramp" /\ pc = "event"
    /\ DayLoc(max_ramp_time_osm.t - 300) = {}
    /\ pc' = "event_done"
    /\ UNCHANGED <<script, frameVars, energyVars, aggVars, analysisVars, engineVars>>

NextEvent ==
    \/ NextRamp
    \/ FindMaxRamp
    \/ FindMaxRampDuplicate
    \/ FindMaxRampAllNaN
    \/ AnalyzeEvent
    \/ AnalyzeEventDuplicate
    \/ SkipEvent

SpecEvent == InitEvent /\ [][NextEvent]_vars

-----------------------------------------------------------------------------
(* Energy aggregation: ANNUAL_ENERGY_PRODUCTION_graphs_and_SUMMARY.py       *)
(* (Aurora_PVlib_OSMMEPS_PVwatts.py lines 16-22 and 114-129 are the same)   *)

(* 2025-01-01T00:00:00Z; 2024 is a leap year *)
Year2025 == 366 * SecondsPerDay

(* period_end values of the weather file: the last sample of 2023, the two *)
(* samples around local midnight of 2024-01-02, the last sample of 2024    *)
AnnualTimes == {-300, 78900, 79200, Year2025 - 300}

(* the weather classes with daylight *)
DayClasses == {"cloud", "clear"}

(* (df.index >= '2024-01-01') & (df.index < '2025-01-01') on a UTC index *)
InYear(t) == t >= 0 /\ t < Year2025

Positions(s) == [i \in DOMAIN s |-> i]

RECURSIVE SumIf(_, _, _)
SumIf(s, keep, i) ==
    IF i > Len(s) \/ keep = {} THEN Zero
    ELSE IF i \in keep /\ ~IsNaN(s[i]) THEN FAdd(s[i], SumIf(s, keep, i + 1))
    ELSE SumIf(s, keep, i + 1)

SetMin(S) == CHOOSE x \in S : \A y \in S : x <= y
SetMax(S) == CHOOSE x \in S : \A y \in S : y <= x

(* a resampling that closes each daily bin on the right *)
ResampleDaySumClosedRight(ix, zone, s) ==
    IF Len(ix) = 0 THEN <<>>
    ELSE LET days == {DateOf(ix[i], zone) : i \in DOMAIN ix}
             bins == {DateOf(ix[i] - 1, zone) : i \in DOMAIN ix}
         IN  [d \in SetMin(days)..SetMax(days) |->
                 IF d \in bins
                 THEN SumIf(s, {i \in DOMAIN ix : DateOf(ix[i] - 1, zone) = d}, 1)
                 ELSE Zero]

(* s.resample('D').sum(): one bin per calendar day of the index's zone from *)
(* the first day to the last, closed on the left; an empty bin sums to 0    *)
ResampleDaySum(ix, zone, s) ==
    IF Len(ix) = 0 THEN <<>>
    ELSE LET days == {DateOf(ix[i], zone) : i \in DOMAIN ix}
             bins == {DateOf(ix[i], zone) : i \in DOMAIN ix}
         IN  [d \in SetMin(days)..SetMax(days) |->
                 IF d \in bins
                 THEN SumIf(s, {i \in DOMAIN ix : DateOf(ix[i], zone) = d}, 1)
                 ELSE Zero]

RECURSIVE SumRange(_, _, _)
SumRange(f, lo, hi) ==
    IF lo > hi THEN Zero
    ELSE IF lo = hi THEN (IF IsNaN(f[lo]) THEN Zero ELSE f[lo])
    ELSE LET mid == (lo + hi) \div 2
         IN  FAdd(SumRange(f, lo, mid), SumRange(f, mid + 1, hi))

(* daily.sum() *)
DailyTotal(daily) ==
    IF DOMAIN daily = {} THEN Zero
    ELSE SumRange(daily, SetMin(DOMAIN daily), SetMax(DOMAIN daily))

(* the file as loaded (line 13): a UTC index in file order *)
InitAnnual ==
    /\ script = "annual"
    /\ source_file = "ANNUAL_ENERGY_PRODUCTION_graphs_and_SUMMARY.py"
    /\ segments = field_segments
    /\ pc = "filter"
    /\ tz = "UTC"
    /\ \E f \in Frames(Rows(AnnualTimes, DayClasses), MaxLen) :
        /\ idx = [i \in DOMAIN f |-> f[i].t]
        /\ weather = [i \in DOMAIN f |-> f[i].w]
    /\ AC_Power_kW_pvlib_total = <<>>
    /\ AC_Power_kW_osm_total = <<>>
    /\ Unbound
    /\ NoColumns

(* line 16 *)
FilterYear ==
    /\ script = "annual" /\ pc = "filter"
    /\ LET keep(i) == InYear(idx[i])
           rows == SelectSeq(Positions(idx), keep)
       IN  /\ idx' = Take(idx, rows)
           /\ weather' = Take(weather, rows)
    /\ pc' = "tz_convert"
    /\ UNCHANGED <<script, engineVars, tz, AC_Power_kW_pvlib_total, AC_Power_kW_osm_total,
                   energyVars, aggVars, analysisVars>>

(* line 18 *)
TzConvert ==
    /\ script = "annual" /\ pc = "tz_convert"
    /\ tz' = "Africa/Johannesburg"
    /\ pc' = "segments"
    /\ UNCHANGED <<script, engineVars, idx, weather, AC_Power_kW_pvlib_total, AC_Power_kW_osm_total,
                   energyVars, aggVars, analysisVars>>

(* lines 51-106: the two totals after the segment loop *)
SegmentLoop ==
    /\ script = "annual" /\ pc = "segments"
    /\ AC_Power_kW_pvlib_total' = [i \in DOMAIN idx |-> ModelPower(weather[i]).pvlib]
    /\ AC_Power_kW_osm_total' = [i \in DOMAIN idx |-> ModelPower(weather[i]).osm]
    /\ pc' = "energy"
    /\ UNCHANGED <<script, engineVars, tz, idx, weather, energyVars, aggVars, analysisVars>>

(* lines 109-110 *)
EnergyCalc ==
    /\ script = "annual" /\ pc = "energy"
    /\ Energy_kWh_pvlib' = EnergyOf(AC_Power_kW_pvlib_total)
    /\ Energy_kWh_osm' = EnergyOf(AC_Power_kW_osm_total)
    /\ pc' = "resample"
    /\ UNCHANGED <<script, engineVars, frameVars, aggVars, analysisVars>>

(* lines 112-113 *)
ResampleDaily ==
    /\ script = "annual" /\ pc = "resample"
    /\ daily_energy_pvlib' = ResampleDaySum(idx, tz, Energy_kWh_pvlib)
    /\ daily_energy_osm' = ResampleDaySum(idx, tz, Energy_kWh_osm)
    /\ pc' = "annual"
    /\ UNCHANGED <<script, engineVars, frameVars, energyVars, annual_energy_pvlib, annual_energy_osm,
                   analysisVars>>

(* lines 115-116 *)
AnnualSum ==
    /\ script = "annual" /\ pc = "annual"
    /\ annual_energy_pvlib' = DailyTotal(daily_energy_pvlib)
    /\ annual_energy_osm' = DailyTotal(daily_energy_osm)
    /\ pc' = "done"
    /\ UNCHANGED <<script, engineVars, frameVars, energyVars, daily_energy_pvlib, daily_energy_osm,
                   analysisVars>>

(* two instants of 2024, 23:55 and 00:00 of consecutive days on the site's *)
(* wall clock                                                              *)
NonFiniteTimes == {78900, 79200}

(* the file as loaded, with rows whose power will not be finite *)
InitNonFinite ==
    /\ script = "annual"
    /\ source_file = "ANNUAL_ENERGY_PRODUCTION_graphs_and_SUMMARY.py"
    /\ segments = field_segments
    /\ pc = "filter"
    /\ tz = "UTC"
    /\ \E f \in Frames(Rows(NonFiniteTimes, DayClasses \cup NonFiniteClasses), MaxLen) :
        /\ idx = [i \in DOMAIN f |-> f[i].t]
        /\ weather = [i \in DOMAIN f |-> f[i].w]
    /\ AC_Power_kW_pvlib_total = <<>>
    /\ AC_Power_kW_osm_total = <<>>
    /\ Unbound
    /\ NoColumns

NextAnnual ==
    \/ FilterYear
    \/ TzConvert
    \/ SegmentLoop
    \/ EnergyCalc
    \/ ResampleDaily
    \/ AnnualSum

SpecAnnual == InitAnnual /\ [][NextAnnual]_vars

SpecNonFinite == InitNonFinite /\ [][NextAnnual]_vars

-----------------------------------------------------------------------------
(* Ingestion and the segment loop: RampRate_W_per_s_SMARTGrid.py 11-100     *)
(* (the other scripts repeat lines 19-24 and 76-91 unchanged)               *)

required_columns ==
    <<"dni", "ghi", "dhi", "air_temp", "albedo", "zenith", "azimuth",
      "cloud_opacity", "relative_humidity", "wind_speed_10m">>

(* an angle of at most five decimals in units of 1e-5 degree, folded into *)
(* [0, 180] degrees; the cosine is even and has period 360 degrees         *)
Fold(x) ==
    LET u == (x.n * (100000 \div x.d)) % 36000000
    IN  IF u > 18000000 THEN 36000000 - u ELSE u

(* np.cos(np.radians(x)), to three decimals, at the angles that occur: the  *)
(* four tilts, the zeniths and the sun-to-surface azimuth differences       *)
CosDeg(x) ==
    IF IsNaN(x) THEN NaN
    ELSE LET u == Fold(x)
         IN  CASE u = 0        -> Fin(1000, 1000)
               [] u = 280000   -> Fin(999, 1000)
               [] u = 300000   -> Fin(999, 1000)
               [] u = 500000   -> Fin(996, 1000)
               [] u = 560000   -> Fin(995, 1000)
               [] u = 6000000  -> Fin(500, 1000)
               [] u = 10000000 -> Fin(-174, 1000)
               [] u = 3338780  -> Fin(835, 1000)
               [] u = 3357654  -> Fin(833, 1000)
               [] u = 4011786  -> Fin(765, 1000)
               [] u = 4479413  -> Fin(710, 1000)
               [] u = 4534654  -> Fin(703, 1000)
               [] u = 13465346 -> Fin(-703, 1000)
               [] u = 13520587 -> Fin(-710, 1000)
               [] u = 13988214 -> Fin(-765, 1000)
               [] u = 14642346 -> Fin(-833, 1000)
               [] u = 14661220 -> Fin(-835, 1000)

(* np.sin(np.radians(x)), to three decimals, for the tilts and the zeniths *)
SinDeg(x) ==
    IF IsNaN(x) THEN NaN
    ELSE LET u == Fold(x)
         IN  CASE u = 0        -> Fin(0, 1000)
               [] u = 280000   -> Fin(49, 1000)
               [] u = 300000   -> Fin(52, 1000)
               [] u = 500000   -> Fin(87, 1000)
               [] u = 560000   -> Fin(98, 1000)
               [] u = 6000000  -> Fin(866, 1000)
               [] u = 10000000 -> Fin(985, 1000)

(* np.degrees(np.arccos(c)): the angle in [0, 180] with cosine c, held by  *)
(* its cosine; NaN outside [-1, 1]                                         *)
ArccosDeg(c) ==
    IF IsNaN(c) \/ FLt(Fin(1, 1), c) \/ FLt(c, Fin(-1, 1)) THEN NaN ELSE c

(* an angle of incidence left unclipped above 90 degrees *)
ClipAoiAbove90(a) == a

(* np.clip(aoi, 0, 90) on an angle held by its cosine: above 90 degrees    *)
(* (negative cosine) it becomes 90 degrees; NaN stays NaN                  *)
ClipAoi(a) == IF IsNaN(a) THEN NaN ELSE IF FLt(a, Zero) THEN Zero ELSE a

(* np.cos(np.radians(aoi)) of an angle held by its cosine *)
CosAoi(a) == a

(* Series.clip(lower=0) *)
ClipLower0(x) == IF IsNaN(x) THEN NaN ELSE IF FLt(x, Zero) THEN Zero ELSE x

(* lines 81-85 *)
Aoi(seg_, zenith, azimuth) ==
    ClipAoi(ArccosDeg(
        FAdd(FMul(CosDeg(zenith), CosDeg(seg_.tilt)),
             FMul(FMul(SinDeg(zenith), SinDeg(seg_.tilt)),
                  CosDeg(FSub(azimuth, seg_.azimuth))))))

(* a direct component that ignores the cloud opacity *)
PoaDirectClearSky(dni, aoi_, cloud_opacity) == ClipLower0(FMul(dni, CosAoi(aoi_)))

(* the direct component without the clip of line 88 *)
PoaDirectUnclipped(dni, aoi_, cloud_opacity) ==
    FMul(FMul(dni, CosAoi(aoi_)), FSub(Fin(1, 1), FDiv(cloud_opacity, Fin(100, 1))))

(* lines 87-88 *)
PoaDirect(dni, aoi_, cloud_opacity) ==
    ClipLower0(FMul(FMul(dni, CosAoi(aoi_)),
                    FSub(Fin(1, 1), FDiv(cloud_opacity, Fin(100, 1)))))

(* line 89 *)
PoaDiffuse(dhi, seg_) ==
    FDiv(FMul(dhi, FAdd(Fin(1, 1), CosDeg(seg_.tilt))), Fin(2, 1))

(* line 90 *)
PoaReflected(ghi, albedo, seg_) ==
    FDiv(FMul(FMul(ghi, albedo), FSub(Fin(1, 1), CosDeg(seg_.tilt))), Fin(2, 1))

(* lines 26-31 (the same values in the three scripts) *)
panel_power_max == DecInt(600)
inverter_efficiency == DecFrac(95, 100)
temp_coeff == DecFrac(-45, 10000)
stc_irradiance == DecInt(1000)
losses == DecInt(1)

RampRateScript == "RampRate_W_per_s_SMARTGrid.py"
AnnualScript == "ANNUAL_ENERGY_PRODUCTION_graphs_and_SUMMARY.py"
AuroraScript == "Aurora_PVlib_OSMMEPS_PVwatts.py"
Scripts == {RampRateScript, AnnualScript, AuroraScript}

(* x / c for a power of ten c *)
DPerThousand(x) == DMul(x, DecFrac(1, 1000))

(* pvlib.irradiance.aoi_projection: the cosine of the angle of incidence,   *)
(* clipped to [-1, 1]                                                       *)
AoiProjection(seg_, sun) ==
    LET p == FAdd(FMul(CosDeg(seg_.tilt), CosDeg(sun.apparent_zenith)),
                  FMul(FMul(SinDeg(seg_.tilt), SinDeg(sun.apparent_zenith)),
                       CosDeg(FSub(sun.azimuth, seg_.azimuth))))
    IN  IF FLt(Fin(1, 1), p) THEN Fin(1, 1)
        ELSE IF FLt(p, Fin(-1, 1)) THEN Fin(-1, 1)
        ELSE p

(* get_total_irradiance is called without albedo: pvlib's default 0.25 *)
GroundAlbedo(w) == Fin(25, 100)

(* lines 58-67: get_total_irradiance(...)["poa_global"], isotropic sky:     *)
(* max(dni * cos(aoi), 0) + dhi * (1 + cos(tilt)) / 2                       *)
(*                        + ghi * albedo * (1 - cos(tilt)) / 2              *)
PoaGlobal(seg_, w, sun) ==
    LET beam == FMul(w.dni, AoiProjection(seg_, sun))
        direct == IF FLt(beam, Zero) THEN Zero ELSE beam
        sky == FDiv(FMul(w.dhi, FAdd(Fin(1, 1), CosDeg(seg_.tilt))), Fin(2, 1))
        ground == FDiv(FMul(FMul(w.ghi, GroundAlbedo(w)),
                            FSub(Fin(1, 1), CosDeg(seg_.tilt))), Fin(2, 1))
    IN  FAdd(direct, FAdd(sky, ground))

(* np.exp(a + b * wind_speed) of sapm_cell, to four decimals, for the       *)
(* coefficients of line 69 (Aurora script: line 82) and whole wind speeds   *)
SapmExp(file, wind) ==
    LET v == wind.n \div wind.d
    IN  IF file = AuroraScript
        THEN CASE v = 0 -> DecFrac(508, 10000)
               [] v = 1 -> DecFrac(485, 10000)
               [] v = 2 -> DecFrac(462, 10000)
               [] v = 3 -> DecFrac(441, 10000)
        ELSE CASE v = 0 -> DecFrac(311, 10000)
               [] v = 1 -> DecFrac(293, 10000)
               [] v = 2 -> DecFrac(276, 10000)
               [] v = 3 -> DecFrac(260, 10000)

(* deltaT of sapm_cell: 3 (Aurora script: 1) *)
SapmDeltaT(file) == IF file = AuroraScript THEN DecInt(1) ELSE DecInt(3)

(* line 69: sapm_cell(poa, air_temp, wind, a, b, deltaT) =                  *)
(* poa * exp(a + b * wind) + air_temp + poa / 1000 * deltaT                 *)
SapmCell(file, poa, w) ==
    DAdd(DAdd(DMul(poa, SapmExp(file, w.wind_speed_10m)), DecOf(w.air_temp)),
         DMul(DPerThousand(poa), SapmDeltaT(file)))

(* lines 70-71 *)
DcPowerPvlib(seg_, poa, temp_cell) ==
    DMul(DMul(DMul(DPerThousand(poa), DecInt(seg_.num_modules)), panel_power_max),
         DAdd(DecInt(1), DMul(temp_coeff, DSub(temp_cell, DecInt(25)))))

(* line 72 (Aurora script, line 86: without the factor losses = 1) *)
AcPowerPvlib(file, dc) ==
    IF file = AuroraScript THEN DMul(dc, inverter_efficiency)
    ELSE DMul(DMul(dc, inverter_efficiency), losses)

(* Model A, one segment and one row: W *)
PvlibPower(file, seg_, w, sun) ==
    LET poa == DecOf(PoaGlobal(seg_, w, sun))
    IN  AcPowerPvlib(file, DcPowerPvlib(seg_, poa, SapmCell(file, poa, w)))

(* pvwatts_dc(poa, temp_cell, pdc0, gamma_pdc, temp_ref = 25) and the AC    *)
(* power of the Aurora script, lines 110-111                                *)
PvwattsPower(seg_, w, sun) ==
    LET poa == DecOf(PoaGlobal(seg_, w, sun))
        temp_cell == SapmCell(AuroraScript, poa, w)
        dc == DMul(DMul(DPerThousand(poa),
                        DMul(panel_power_max, DecInt(seg_.num_modules))),
                   DAdd(DecInt(1), DMul(temp_coeff, DSub(temp_cell, DecInt(25)))))
    IN  DMul(DMul(dc, inverter_efficiency), DSub(DecInt(1), DecFrac(1, 100)))

(* lines 81-91, one row *)
PoaTotal(seg_, w) ==
    FAdd(FAdd(PoaDirect(w.dni, Aoi(seg_, w.zenith, w.azimuth), w.cloud_opacity),
              PoaDiffuse(w.dhi, seg_)),
         PoaReflected(w.ghi, w.albedo, seg_))

(* line 93 *)
ModuleTemp(poa, w) ==
    DAdd(DecInt(45), DMul(DPerThousand(poa), DSub(DecInt(28), DecOf(w.air_temp))))

(* lines 94-96: per module (Aurora script, line 104: times num_panels) *)
DcPowerOsm(file, seg_, poa, w) ==
    LET thermal == DAdd(DecInt(1),
                        DMul(temp_coeff, DSub(ModuleTemp(poa, w), DecInt(45))))
        humid == DSub(DecInt(1), DMul(DecFrac(2, 1000), DecOf(w.relative_humidity)))
        rated == IF file = AuroraScript
                 THEN DMul(panel_power_max, DecInt(seg_.num_modules))
                 ELSE panel_power_max
    IN  DMul(DMul(DMul(rated, thermal), DPerThousand(poa)), humid)

(* lines 97-99: ac_power_osm, scaled_power, actual_power (Aurora script,    *)
(* line 105: ac_power_osm only)                                             *)
AcPowerOsm(file, seg_, dc) ==
    IF file = AuroraScript THEN DMul(dc, inverter_efficiency)
    ELSE DMul(DMul(DMul(dc, inverter_efficiency), DecInt(seg_.num_modules)),
              DSub(DecInt(1), DecFrac(1, 100)))

(* Model B, one segment and one row: W *)
OsmPower(file, seg_, w) ==
    AcPowerOsm(file, seg_, DcPowerOsm(file, seg_, DecOf(PoaTotal(seg_, w)), w))

(* a Model B that takes the sun's position from pvlib's solar_position *)
OsmModelWithSolarPosition(file, seg_, w, sun) ==
    OsmPower(file, seg_, [w EXCEPT !.zenith = sun.apparent_zenith,
                                   !.azimuth = sun.azimuth])

(* lines 75-100: the OSM-MEPS block of the loop body; df and solar_position *)
(* are both in scope, the block reads df only                               *)
OsmModel(file, seg_, w, sun) == OsmPower(file, seg_, w)

(* lines 57-73: the PVLIB block of the loop body *)
PvlibModel(file, seg_, w, sun) == PvlibPower(file, seg_, w, sun)

(* weather samples of the file: clear noon; overcast with the sun in the   *)
(* north; overcast with the sun in the south; half-covered sky; sun below  *)
(* the horizon under full cover                                            *)
weather_rows ==
    <<[dni |-> Fin(1000, 1), ghi |-> Fin(1000, 1), dhi |-> Fin(100, 1),
      air_temp |-> Fin(25, 1), albedo |-> Fin(2, 10), zenith |-> Fin(0, 1),
      azimuth |-> Fin(0, 1), cloud_opacity |-> Fin(0, 1),
      relative_humidity |-> Fin(40, 1), wind_speed_10m |-> Fin(2, 1)],
     [dni |-> Fin(800, 1), ghi |-> Fin(300, 1), dhi |-> Fin(200, 1),
      air_temp |-> Fin(20, 1), albedo |-> Fin(2, 10), zenith |-> Fin(60, 1),
      azimuth |-> Fin(0, 1), cloud_opacity |-> Fin(100, 1),
      relative_humidity |-> Fin(80, 1), wind_speed_10m |-> Fin(3, 1)],
     [dni |-> Fin(500, 1), ghi |-> Fin(200, 1), dhi |-> Fin(150, 1),
      air_temp |-> Fin(18, 1), albedo |-> Fin(2, 10), zenith |-> Fin(60, 1),
      azimuth |-> Fin(180, 1), cloud_opacity |-> Fin(150, 1),
      relative_humidity |-> Fin(90, 1), wind_speed_10m |-> Fin(1, 1)],
     [dni |-> Fin(800, 1), ghi |-> Fin(600, 1), dhi |-> Fin(100, 1),
      air_temp |-> Fin(22, 1), albedo |-> Fin(2, 10), zenith |-> Fin(60, 1),
      azimuth |-> Fin(180, 1), cloud_opacity |-> Fin(50, 1),
      relative_humidity |-> Fin(60, 1), wind_speed_10m |-> Fin(2, 1)],
     [dni |-> Fin(200, 1), ghi |-> Fin(0, 1), dhi |-> Fin(50, 1),
      air_temp |-> Fin(15, 1), albedo |-> Fin(2, 10), zenith |-> Fin(100, 1),
      azimuth |-> Fin(0, 1), cloud_opacity |-> Fin(100, 1),
      relative_humidity |-> Fin(70, 1), wind_speed_10m |-> Fin(0, 1)]>>

WeatherSamples == Range(weather_rows)

Required == Range(required_columns)

(* the table with the columns in absent left out *)
Columns(f, absent) == [c \in Required \ absent |-> [i \in DOMAIN f |-> f[i][c]]]

(* a column of zeros, one per row: df[col] = 0 *)
ZeroColumn(n) == [i \in 1..n |-> Zero]

(* a fill that leaves the last required column out *)
FillMissingButLast(table, n) ==
    [c \in DOMAIN table \cup (Required \ {required_columns[Len(required_columns)]}) |->
        IF c \in DOMAIN table THEN table[c] ELSE ZeroColumn(n)]

(* lines 21-24: every required column that is absent becomes a zero column *)
FillMissing(table, n) ==
    [c \in DOMAIN table \cup Required |->
        IF c \in DOMAIN table THEN table[c] ELSE ZeroColumn(n)]

(* the files of 1..n rows: rows of weather_rows, in that order *)
WeatherFiles(n) ==
    UNION {{[i \in 1..m |-> weather_rows[p[i]]] :
               p \in {q \in [1..m -> DOMAIN weather_rows] :
                          \A i \in 1..(m - 1) : q[i] < q[i + 1]}} : m \in 1..n}

(* the sets of required columns a file can lack: none, one, or all *)
AbsentColumnSets == {{}} \cup {{c} : c \in Required} \cup {Required}

(* the file as read and filtered (line 16), some required columns absent *)
InitEngine ==
    /\ script = "engine"
    /\ source_file = RampRateScript
    /\ segments = field_segments
    /\ pc = "fill"
    /\ tz = "UTC"
    /\ \E f \in WeatherFiles(MaxRows) :
       \E absent \in AbsentColumnSets :
        /\ idx = [i \in DOMAIN f |-> 300 * i]
        /\ csv = Columns(f, absent)
        /\ df = Columns(f, absent)
    /\ weather = <<>>
    /\ AC_Power_kW_pvlib_total = <<>>
    /\ AC_Power_kW_osm_total = <<>>
    /\ seg = 0
    /\ aoi = <<>>
    /\ poa_direct = <<>>
    /\ poa_diffuse = <<>>
    /\ poa_reflected = <<>>
    /\ poa_total = <<>>
    /\ solar_position = <<>>
    /\ AC_Power_kW_pvwatts_total = <<>>
    /\ poa_irradiance = <<>>
    /\ ac_power = <<>>
    /\ actual_power = <<>>
    /\ Unbound

(* lines 21-24 *)
FillColumns ==
    /\ script = "engine" /\ pc = "fill"
    /\ df' = FillMissing(df, Len(idx))
    /\ pc' = "solar"
    /\ UNCHANGED <<script, frameVars, energyVars, aggVars, analysisVars, csv, seg, poaVars,
                   source_file, segments, solar_position, AC_Power_kW_pvwatts_total,
                   powerVars>>

(* pvlib.solarposition.get_solarposition at one instant: a fixed ephemeris *)
SunAt(t) ==
    CASE (t \div 300) % 3 = 1 -> [apparent_zenith |-> Fin(60, 1), azimuth |-> Fin(0, 1)]
      [] (t \div 300) % 3 = 2 -> [apparent_zenith |-> Fin(0, 1), azimuth |-> Fin(0, 1)]
      [] (t \div 300) % 3 = 0 -> [apparent_zenith |-> Fin(100, 1), azimuth |-> Fin(180, 1)]

(* line 35 *)
SolarPosition ==
    /\ script = "engine" /\ pc = "solar"
    /\ solar_position' = [i \in DOMAIN idx |-> SunAt(idx[i])]
    /\ pc' = "totals"
    /\ UNCHANGED <<script, frameVars, energyVars, aggVars, analysisVars, csv, df, seg, poaVars,
                   source_file, segments, AC_Power_kW_pvwatts_total, powerVars>>

(* lines 48-49 (Aurora script, lines 57-59) *)
InitTotals ==
    /\ script = "engine" /\ pc = "totals"
    /\ AC_Power_kW_pvlib_total' = [i \in DOMAIN idx |-> DZero]
    /\ AC_Power_kW_osm_total' = [i \in DOMAIN idx |-> DZero]
    /\ AC_Power_kW_pvwatts_total' =
           IF source_file = AuroraScript THEN [i \in DOMAIN idx |-> DZero]
           ELSE AC_Power_kW_pvwatts_total
    /\ pc' = "loop"
    /\ UNCHANGED <<script, tz, idx, weather, energyVars, aggVars, analysisVars, csv, df, seg,
                   poaVars, source_file, segments, solar_position, powerVars>>

Row(table, i) == [c \in Required |-> table[c][i]]

(* total = power / 1000: an assignment in place of the += *)
AccumulateOverwrite(total, power) ==
    [i \in DOMAIN total |-> DPerThousand(power[i])]

(* total += power / 1000 *)
Accumulate(total, power) ==
    [i \in DOMAIN total |-> DAdd(total[i], DPerThousand(power[i]))]

(* lines 52-100: one iteration of the segment loop, both models *)
SegmentPoa ==
    /\ script = "engine" /\ pc = "loop"
    /\ seg < Len(segments)
    /\ Required \subseteq DOMAIN df
    /\ LET s_ == segments[seg + 1]
           a == [i \in DOMAIN idx |-> Aoi(s_, df["zenith"][i], df["azimuth"][i])]
           direct == [i \in DOMAIN idx |->
                         PoaDirect(df["dni"][i], a[i], df["cloud_opacity"][i])]
           diffuse == [i \in DOMAIN idx |-> PoaDiffuse(df["dhi"][i], s_)]
           reflected == [i \in DOMAIN idx |->
                            PoaReflected(df["ghi"][i], df["albedo"][i], s_)]
           pvlib == [i \in DOMAIN idx |->
                        PvlibModel(source_file, s_, Row(df, i), solar_position[i])]
           osm == [i \in DOMAIN idx |->
                      OsmModel(source_file, s_, Row(df, i), solar_position[i])]
       IN  /\ poa_irradiance' = [i \in DOMAIN idx |->
                                    PoaGlobal(s_, Row(df, i), solar_position[i])]
           /\ ac_power' = pvlib
           /\ AC_Power_kW_pvlib_total' = Accumulate(AC_Power_kW_pvlib_total, ac_power')
           /\ aoi' = a
           /\ poa_direct' = direct
           /\ poa_diffuse' = diffuse
           /\ poa_reflected' = reflected
           /\ poa_total' = [i \in DOMAIN idx |->
                               FAdd(FAdd(direct[i], diffuse[i]), reflected[i])]
           /\ actual_power' = osm
           /\ AC_Power_kW_osm_total' = Accumulate(AC_Power_kW_osm_total, actual_power')
           /\ AC_Power_kW_pvwatts_total' =
                  IF source_file = AuroraScript
                  THEN Accumulate(AC_Power_kW_pvwatts_total,
                                  [i \in DOMAIN idx |->
                                      PvwattsPower(s_, Row(df, i), solar_position[i])])
                  ELSE AC_Power_kW_pvwatts_total
    /\ seg' = seg + 1
    /\ pc' = pc
    /\ UNCHANGED <<script, tz, idx, weather, energyVars, aggVars, analysisVars, csv, df,
                   source_file, segments, solar_position>>

(* line 52: the loop ends after the last segment *)
LoopEnd ==
    /\ script = "engine" /\ pc = "loop"
    /\ seg = Len(segments)
    /\ pc' = "done"
    /\ UNCHANGED <<script, frameVars, energyVars, aggVars, analysisVars, engineVars>>

NextEngine ==
    \/ FillColumns
    \/ SolarPosition
    \/ InitTotals
    \/ SegmentPoa
    \/ LoopEnd

SpecEngine == InitEngine /\ [][NextEngine]_vars

(* the same weather file, complete, given to each of the three scripts *)
InitCompare ==
    /\ script = "engine"
    /\ source_file \in Scripts
    /\ segments = field_segments
    /\ pc = "fill"
    /\ tz = "UTC"
    /\ \E f \in WeatherFiles(MaxRows) :
        /\ idx = [i \in DOMAIN f |-> 300 * i]
        /\ csv = Columns(f, {})
        /\ df = Columns(f, {})
    /\ weather = <<>>
    /\ AC_Power_kW_pvlib_total = <<>>
    /\ AC_Power_kW_osm_total = <<>>
    /\ seg = 0
    /\ aoi = <<>>
    /\ poa_direct = <<>>
    /\ poa_diffuse = <<>>
    /\ poa_reflected = <<>>
    /\ poa_total = <<>>
    /\ solar_position = <<>>
    /\ AC_Power_kW_pvwatts_total = <<>>
    /\ poa_irradiance = <<>>
    /\ ac_power = <<>>
    /\ actual_power = <<>>
    /\ Unbound

SpecCompare == InitCompare /\ [][NextEngine]_vars

(* lines 39-45 with one entry edited: field_segments is the script's       *)
(* configuration, a literal the operator of the site changes by hand       *)
EditedSegments ==
    {[field_segments EXCEPT ![1].num_modules = 0],
     [field_segments EXCEPT ![2].num_modules = -32],
     [field_segments EXCEPT ![3].tilt = Fin(100, 1)],
     [field_segments EXCEPT ![5].azimuth = Fin(49465346, 100000)]}

(* the ramp-rate script on a complete weather file, with the configured    *)
(* segments or an edited list                                              *)
InitConfig ==
    /\ script = "engine"
    /\ source_file = RampRateScript
    /\ segments \in {field_segments} \cup EditedSegments
    /\ pc = "fill"
    /\ tz = "UTC"
    /\ \E f \in WeatherFiles(MaxRows) :
        /\ idx = [i \in DOMAIN f |-> 300 * i]
        /\ csv = Columns(f, {})
        /\ df = Columns(f, {})
    /\ weather = <<>>
    /\ AC_Power_kW_pvlib_total = <<>>
    /\ AC_Power_kW_osm_total = <<>>
    /\ seg = 0
    /\ aoi = <<>>
    /\ poa_direct = <<>>
    /\ poa_diffuse = <<>>
    /\ poa_reflected = <<>>
    /\ poa_total = <<>>
    /\ solar_position = <<>>
    /\ AC_Power_kW_pvwatts_total = <<>>
    /\ poa_irradiance = <<>>
    /\ ac_power = <<>>
    /\ actual_power = <<>>
    /\ Unbound

SpecConfig == InitConfig /\ [][NextEngine]_vars

-----------------------------------------------------------------------------
(* Properties of the ramp & swing analysis *)

RampDone == script = "ramp" /\ pc \notin {"energy5", "sort", "ramp"}

SwingDone ==
    /\ script = "ramp"
    /\ pc \in {"battery", "day", "stats", "coverage", "done"}
    /\ Len(idx) >= 2

SizingDone ==
    /\ script = "ramp"
    /\ pc \in {"day", "stats", "coverage", "done"}
    /\ Len(idx) >= 2

DaySelected == script = "ramp" /\ pc \in {"stats", "coverage", "done"}

(* power[i] - power[i-1] and the seconds between sample i and its predecessor *)
Delta(power, i) == FSub(power[i], power[i - 1])
Elapsed(i) == idx[i] - idx[i - 1]

(* C1: the ramp rate stored for the first sample of either model is exactly *)
(* zero, and so is the elapsed time of the first sample.                    *)
C1_FirstRampZero ==
    (RampDone /\ Len(idx) >= 1) =>
        /\ time_diff_s[1] = Zero
        /\ Ramp_W_per_s_pvlib[1] = Zero
        /\ Ramp_W_per_s_osm[1] = Zero

(* C2: a sample whose timestamp equals its predecessor's has ramp rate zero *)
(* in both models, whatever the two power values are.                       *)
C2_DuplicateRampZero ==
    RampDone =>
        \A i \in 2..Len(idx) :
            Elapsed(i) = 0 =>
                /\ Ramp_W_per_s_pvlib[i] = Zero
                /\ Ramp_W_per_s_osm[i] = Zero

RampFormula(ramp, power, i) ==
    ramp[i] = FDiv(FMul(Delta(power, i), Fin(1000, 1)), Fin(Elapsed(i), 1))

SwingOver300(power, i) == FDiv(FMul(Delta(power, i), Fin(1000, 1)), Fin(300, 1))

(* C3 as stated: after the first sample and with positive elapsed time, the *)
(* ramp is delta * 1000 / elapsed, and it equals delta * 1000 / 300 exactly *)
(* when the interval is 300 s.                                              *)
C3_RampEqualsSwingIffFiveMinutes ==
    RampDone =>
        \A i \in 2..Len(idx) :
            Elapsed(i) > 0 =>
                /\ RampFormula(Ramp_W_per_s_pvlib, AC_Power_kW_pvlib_total, i)
                /\ RampFormula(Ramp_W_per_s_osm, AC_Power_kW_osm_total, i)
                /\ (Ramp_W_per_s_pvlib[i] = SwingOver300(AC_Power_kW_pvlib_total, i))
                       <=> (Elapsed(i) = 300)
                /\ (Ramp_W_per_s_osm[i] = SwingOver300(AC_Power_kW_osm_total, i))
                       <=> (Elapsed(i) = 300)

(* C3 amended: after the first sample and with positive elapsed time, the   *)
(* ramp is delta * 1000 / elapsed over the sorted index; it equals          *)
(* delta * 1000 / 300 exactly when the interval is 300 s or the power did   *)
(* not change.                                                              *)
C3_RampFormula ==
    RampDone =>
        /\ IsSorted(idx)
        /\ \A i \in 2..Len(idx) :
            Elapsed(i) > 0 =>
                /\ RampFormula(Ramp_W_per_s_pvlib, AC_Power_kW_pvlib_total, i)
                /\ RampFormula(Ramp_W_per_s_osm, AC_Power_kW_osm_total, i)
                /\ (Ramp_W_per_s_pvlib[i] = SwingOver300(AC_Power_kW_pvlib_total, i))
                       <=> (Elapsed(i) = 300 \/ Delta(AC_Power_kW_pvlib_total, i) = Zero)
                /\ (Ramp_W_per_s_osm[i] = SwingOver300(AC_Power_kW_osm_total, i))
                       <=> (Elapsed(i) = 300 \/ Delta(AC_Power_kW_osm_total, i) = Zero)

(* a 300 s interval and a longer one, both with a power change *)
C3_Witness ==
    /\ RampDone
    /\ \E i, j \in 2..Len(idx) :
        /\ Elapsed(i) = 300 /\ Delta(AC_Power_kW_osm_total, i) # Zero
        /\ Elapsed(j) > 300 /\ Delta(AC_Power_kW_osm_total, j) # Zero
        /\ Ramp_W_per_s_osm[j] # SwingOver300(AC_Power_kW_osm_total, j)

(* C4: the reported swing is |power[i] - power[i-1]| at a sample i carrying *)
(* the reported timestamp, and no consecutive pair differs by more.         *)
C4_SwingIsMaximal ==
    SwingDone =>
        /\ \E i \in 2..Len(idx) :
            /\ max_swing_time_5min_osm = Stamp(idx[i])
            /\ max_power_swing_5min_osm = FAbs(Delta(AC_Power_kW_osm_total, i))
        /\ \A j \in 2..Len(idx) :
            FLe(FAbs(Delta(AC_Power_kW_osm_total, j)), max_power_swing_5min_osm)

(* the largest change is a drop, and it is not the first pair *)
C4_Witness ==
    /\ SwingDone
    /\ \E i \in 3..Len(idx) :
        /\ max_swing_time_5min_osm = Stamp(idx[i])
        /\ FLt(Delta(AC_Power_kW_osm_total, i), Zero)
        /\ FLt(FAbs(Delta(AC_Power_kW_osm_total, 2)), max_power_swing_5min_osm)

(* C5: the power rating is 1.2 times the largest consecutive difference of  *)
(* the whole series and the energy capacity is 2.0 times the power rating.  *)
C5_BatterySizing ==
    SizingDone =>
        \E i \in 2..Len(idx) :
            /\ \A j \in 2..Len(idx) :
                FLe(FAbs(Delta(AC_Power_kW_osm_total, j)),
                    FAbs(Delta(AC_Power_kW_osm_total, i)))
            /\ battery_power_rating_osm =
                   FMul(Fin(6, 5), FAbs(Delta(AC_Power_kW_osm_total, i)))
            /\ recommended_energy_osm = FMul(Fin(2, 1), battery_power_rating_osm)

C5_Witness ==
    /\ SizingDone
    /\ battery_power_rating_osm = Fin(6, 1)
    /\ recommended_energy_osm = Fin(12, 1)

(* C6: with a positive swing, coverage = rating / swing * 100 = 120 and     *)
(* margin = coverage - 100 = 20, whatever the data.                         *)
C6_CoverageIs120 ==
    (script = "ramp" /\ pc = "done" /\ FLt(Zero, max_power_swing_5min_osm)) =>
        /\ battery_coverage =
               FMul(FDiv(battery_power_rating_osm, max_power_swing_5min_osm), Fin(100, 1))
        /\ battery_coverage = Fin(120, 1)
        /\ margin = FSub(battery_coverage, Fin(100, 1))
        /\ margin = Fin(20, 1)

C6_Witness ==
    /\ script = "ramp" /\ pc = "done"
    /\ max_power_swing_5min_osm = Fin(3, 1)
    /\ battery_coverage = Fin(120, 1)

-----------------------------------------------------------------------------
(* Properties of the energy aggregation *)

AnnualDone == script = "annual" /\ pc = "done"

Site == "Africa/Johannesburg"

(* sum over the samples at the positions in keep of power * 5/60 *)
RECURSIVE EnergyAt(_, _, _)
EnergyAt(power, keep, i) ==
    IF i > Len(power) \/ keep = {} THEN Zero
    ELSE IF i \in keep
         THEN FAdd(FMul(power[i], Fin(1, 12)), EnergyAt(power, keep, i + 1))
    ELSE EnergyAt(power, keep, i + 1)

OnDay(d) == {i \in DOMAIN idx : DateOf(idx[i], Site) = d}

BucketsOf(daily, power) ==
    /\ \A i \in DOMAIN idx : DateOf(idx[i], Site) \in DOMAIN daily
    /\ \A d \in DOMAIN daily : daily[d] = EnergyAt(power, OnDay(d), 1)

(* C7: annual energy = sum of the daily energies = sum over all samples of  *)
(* power * 5/60; each sample is counted in the bucket of its own day and in *)
(* no other; the daily series does not depend on the order of the samples.  *)
C7_AnnualIsSumOfSamples ==
    AnnualDone =>
        /\ annual_energy_pvlib = EnergyAt(AC_Power_kW_pvlib_total, DOMAIN idx, 1)
        /\ annual_energy_osm = EnergyAt(AC_Power_kW_osm_total, DOMAIN idx, 1)
        /\ annual_energy_pvlib = DailyTotal(daily_energy_pvlib)
        /\ annual_energy_osm = DailyTotal(daily_energy_osm)
        /\ BucketsOf(daily_energy_pvlib, AC_Power_kW_pvlib_total)
        /\ BucketsOf(daily_energy_osm, AC_Power_kW_osm_total)
        /\ \A p \in Perms(Len(idx)) :
            /\ ResampleDaySum(Take(idx, p), tz, Take(Energy_kWh_osm, p)) = daily_energy_osm
            /\ ResampleDaySum(Take(idx, p), tz, Take(Energy_kWh_pvlib, p)) = daily_energy_pvlib

(* an unsorted frame with two samples on one local day, one of them at      *)
(* local midnight, and one on the day before                                 *)
C7_Witness ==
    /\ AnnualDone
    /\ ~IsSorted(idx)
    /\ Cardinality(OnDay(1)) = 2
    /\ Cardinality(OnDay(0)) = 1
    /\ \E i \in DOMAIN idx : idx[i] = 79200
    /\ FLt(daily_energy_osm[0], daily_energy_osm[1])
    /\ FLt(daily_energy_osm[1], annual_energy_osm)

(* C8: the daily energy buckets and the rows selected for the analysis day  *)
(* of the worst swing both group samples by their calendar day in           *)
(* Africa/Johannesburg.                                                     *)
C8_GroupsByLocalDay ==
    /\ (script = "annual" /\ pc \in {"annual", "done"}) =>
          /\ BucketsOf(daily_energy_pvlib, AC_Power_kW_pvlib_total)
          /\ BucketsOf(daily_energy_osm, AC_Power_kW_osm_total)
    /\ DaySelected =>
          \A i \in DOMAIN idx :
              (i \in Range(day_data_osm)) <=>
                  (DateOf(idx[i], Site) = DateOf(max_swing_time_5min_osm.t, Site))

-----------------------------------------------------------------------------
(* Properties of the ingestion and of the Model B transposition *)

Filled == script = "engine" /\ pc # "fill"

AbsentColumns == Required \ DOMAIN csv

(* C9: after ingestion every one of the ten required weather fields is a   *)
(* column of the table; a field that was absent from the input is zero at  *)
(* every timestamp, a field that was present is left as it was read, and   *)
(* the segment loop can read every field it needs (the run goes on)        *)
C9_MissingFieldsAreZero ==
    Filled =>
        /\ Required \subseteq DOMAIN df
        /\ \A c \in Required :
            IF c \in DOMAIN csv
            THEN df[c] = csv[c]
            ELSE /\ DOMAIN df[c] = DOMAIN idx
                 /\ \A i \in DOMAIN idx : df[c][i] = Zero
        /\ pc # "fault"

(* C9: a run whose input lacked a required field went through the whole    *)
(* segment loop with that field read as zero                               *)
C9_Witness ==
    /\ script = "engine" /\ pc = "done"
    /\ seg = Len(field_segments)
    /\ \E c \in AbsentColumns : \A i \in DOMAIN idx : df[c][i] = Zero
    /\ \E c \in DOMAIN csv : df[c] = csv[c]

Overcast(i) == df["cloud_opacity"][i] = Fin(100, 1)

(* C10: in Model B, for the segment just processed and every timestamp     *)
(* whose cloud opacity is 100, the direct plane-of-array component is      *)
(* exactly zero whatever the DNI and the angle of incidence, and the total *)
(* is the diffuse plus the reflected component                             *)
C10_OvercastDirectIsZero ==
    (script = "engine" /\ seg >= 1) =>
        \A i \in DOMAIN idx :
            Overcast(i) =>
                /\ poa_direct[i] = Zero
                /\ poa_total[i] = FAdd(poa_diffuse[i], poa_reflected[i])

(* C10: an overcast timestamp with the sun in front of the last segment    *)
(* and a positive DNI, whose direct component is zero while the total is   *)
(* not                                                                     *)
C10_Witness ==
    /\ script = "engine" /\ seg = Len(field_segments)
    /\ \E i \in DOMAIN idx :
        /\ Overcast(i)
        /\ FLt(Zero, df["dni"][i])
        /\ FLt(Zero, aoi[i])
        /\ poa_direct[i] = Zero
        /\ FLt(Zero, poa_total[i])

-----------------------------------------------------------------------------
(* Properties of the power conversion *)

LoopDone == script = "engine" /\ pc = "done"

(* the system power (kW) of one row: the per-segment AC power of the first *)
(* k segments, taken in the order given, summed from zero                  *)
RECURSIVE PvlibSystem(_, _, _, _, _)
PvlibSystem(file, order, k, w, sun) ==
    IF k = 0 THEN DZero
    ELSE DAdd(PvlibSystem(file, order, k - 1, w, sun),
              DPerThousand(PvlibModel(file, field_segments[order[k]], w, sun)))

RECURSIVE OsmSystem(_, _, _, _, _)
OsmSystem(file, order, k, w, sun) ==
    IF k = 0 THEN DZero
    ELSE DAdd(OsmSystem(file, order, k - 1, w, sun),
              DPerThousand(OsmModel(file, field_segments[order[k]], w, sun)))

ConfiguredOrder == [k \in DOMAIN field_segments |-> k]

(* the row w with the fields Model A must not read taken from v *)
OtherFieldsForPvlib(w, v) ==
    [w EXCEPT !.cloud_opacity = v.cloud_opacity,
              !.relative_humidity = v.relative_humidity,
              !.albedo = v.albedo,
              !.zenith = v.zenith,
              !.azimuth = v.azimuth]

(* the row w with the wind speed of v, and v's geometry as another value   *)
(* of the external solar position                                          *)
OtherWind(w, v) == [w EXCEPT !.wind_speed_10m = v.wind_speed_10m]
OtherSun(v) == [apparent_zenith |-> v.zenith, azimuth |-> v.azimuth]

(* C11: the Model A system power of a row is the same for every input that *)
(* differs from it only in cloud_opacity, relative_humidity, albedo or the *)
(* raw zenith/azimuth fields; the Model B system power is the same for     *)
(* every input that differs only in wind speed or in the external solar    *)
(* position; each total holds the contributions of its own model only      *)
C11_ModelsDoNotInterfere ==
    LoopDone =>
        \A i \in DOMAIN idx : \A v \in WeatherSamples :
            /\ PvlibSystem(source_file, ConfiguredOrder, Len(field_segments),
                           OtherFieldsForPvlib(Row(df, i), v), solar_position[i])
                   = AC_Power_kW_pvlib_total[i]
            /\ OsmSystem(source_file, ConfiguredOrder, Len(field_segments),
                         OtherWind(Row(df, i), v), OtherSun(v))
                   = AC_Power_kW_osm_total[i]

(* C11: a row with power in both models and another input that differs in  *)
(* every field the claim names                                             *)
C11_Witness ==
    /\ LoopDone
    /\ \E i \in DOMAIN idx : \E v \in WeatherSamples :
        /\ AC_Power_kW_pvlib_total[i] # DZero
        /\ AC_Power_kW_osm_total[i] # DZero
        /\ AC_Power_kW_pvlib_total[i] # AC_Power_kW_osm_total[i]
        /\ v.cloud_opacity # df["cloud_opacity"][i]
        /\ v.relative_humidity # df["relative_humidity"][i]
        /\ v.zenith # df["zenith"][i]
        /\ v.azimuth # df["azimuth"][i]
        /\ v.wind_speed_10m # df["wind_speed_10m"][i]
        /\ OtherSun(v) # solar_position[i]

(* an iteration of the segment loop has run *)
SegmentProcessed == script = "engine" /\ pc \in {"loop", "done"} /\ seg > 0

NonNegative(x) == x.k = "fin" /\ ~FLt(x, Zero)

(* the irradiance fields of row i are non-negative numbers *)
IrradianceNonNegative(i) ==
    \A c \in {"dni", "ghi", "dhi", "albedo"} : NonNegative(df[c][i])

(* cloud opacities outside the documented range [0, 100] *)
OpacitiesAbove100 == {Fin(150, 1), Fin(200, 1), Fin(300, 1)}

(* C12: for the segment just processed and every timestamp with DNI, GHI,  *)
(* DHI and albedo >= 0, the plane-of-array irradiance of Model A and of    *)
(* Model B is >= 0; Model B's stays >= 0 for any cloud opacity, also above *)
(* 100                                                                     *)
C12_PoaIsNonNegative ==
    SegmentProcessed =>
        \A i \in DOMAIN idx :
            IrradianceNonNegative(i) =>
                /\ NonNegative(poa_irradiance[i])
                /\ NonNegative(poa_total[i])
                /\ \A c \in OpacitiesAbove100 :
                       NonNegative(PoaTotal(field_segments[seg],
                                            [Row(df, i) EXCEPT !.cloud_opacity = c]))

(* C12: a timestamp with cloud opacity above 100, DNI > 0 and the sun in   *)
(* front of the plane, so that the unclipped direct component is negative  *)
C12_Witness ==
    /\ SegmentProcessed
    /\ \E i \in DOMAIN idx :
        /\ IrradianceNonNegative(i)
        /\ FLt(Fin(100, 1), df["cloud_opacity"][i])
        /\ FLt(Zero, df["dni"][i])
        /\ FLt(Zero, CosAoi(aoi[i]))
        /\ poa_direct[i] = Zero
        /\ FLt(Zero, poa_total[i])
        /\ FLt(Zero, poa_irradiance[i])

(* rated_power * module_count * (1 + temp_coeff * (module_temp - 45))      *)
(* * (POA / 1000) * (1 - 0.002 * relative_humidity) * inverter_efficiency  *)
(* * (1 - 0.01), for the segment just processed and row i                  *)
ModelBWithSystemLoss(i) ==
    LET poa == DecOf(poa_total[i])
        module_temp == DAdd(DecInt(45),
                            DMul(DPerThousand(poa),
                                 DSub(DecInt(28), DecOf(df["air_temp"][i]))))
    IN  DMul(DMul(DMul(DMul(DMul(DMul(DecInt(600),
                                      DecInt(field_segments[seg].num_modules)),
                                 DAdd(DecInt(1),
                                      DMul(DecFrac(-45, 10000),
                                           DSub(module_temp, DecInt(45))))),
                            DPerThousand(poa)),
                       DSub(DecInt(1),
                            DMul(DecFrac(2, 1000),
                                 DecOf(df["relative_humidity"][i])))),
                  DecFrac(95, 100)),
             DSub(DecInt(1), DecFrac(1, 100)))

(* C13: in each of the three analyses, the Model B AC power of the segment *)
(* just processed is rated_power * module_count * temperature factor *     *)
(* POA/1000 * humidity factor * inverter_efficiency * (1 - 0.01) at every  *)
(* timestamp                                                               *)
C13_ModelBAppliesSystemLoss ==
    SegmentProcessed =>
        \A i \in DOMAIN idx : actual_power[i] = ModelBWithSystemLoss(i)

(* the per-segment AC power (kW) of one row, for the first k configured    *)
(* segments                                                                *)
RECURSIVE PvlibContributions(_, _, _, _)
PvlibContributions(file, w, sun, k) ==
    IF k = 0 THEN <<>>
    ELSE Append(PvlibContributions(file, w, sun, k - 1),
                DPerThousand(PvlibModel(file, field_segments[k], w, sun)))

RECURSIVE OsmContributions(_, _, _, _)
OsmContributions(file, w, sun, k) ==
    IF k = 0 THEN <<>>
    ELSE Append(OsmContributions(file, w, sun, k - 1),
                DPerThousand(OsmModel(file, field_segments[k], w, sun)))

(* the first k contributions in the order given, summed from zero *)
RECURSIVE SumInOrder(_, _, _)
SumInOrder(c, order, k) ==
    IF k = 0 THEN DZero ELSE DAdd(SumInOrder(c, order, k - 1), c[order[k]])

(* every order in which the five segments can be processed *)
SegmentOrders ==
    {o \in [DOMAIN field_segments -> DOMAIN field_segments] :
        \A a, b \in DOMAIN field_segments : a # b => o[a] # o[b]}

(* C14: after the segment loop, each model's system AC power at every      *)
(* timestamp is the sum, from zero, of the per-segment AC power in kW over *)
(* the five configured segments, each counted once, and is the same for    *)
(* every order of the segments                                             *)
C14_SystemPowerIsSegmentSum ==
    LoopDone =>
        \A i \in DOMAIN idx :
            LET n == Len(field_segments)
                a == PvlibContributions(source_file, Row(df, i), solar_position[i], n)
                b == OsmContributions(source_file, Row(df, i), solar_position[i], n)
            IN  \A o \in SegmentOrders :
                    /\ SumInOrder(a, o, n) = AC_Power_kW_pvlib_total[i]
                    /\ SumInOrder(b, o, n) = AC_Power_kW_osm_total[i]

(* C14: a timestamp whose system power is more than the last segment's     *)
(* contribution, in both models                                            *)
C14_Witness ==
    /\ LoopDone
    /\ \E i \in DOMAIN idx :
        /\ ac_power[i] # DZero
        /\ actual_power[i] # DZero
        /\ AC_Power_kW_pvlib_total[i] # DPerThousand(ac_power[i])
        /\ AC_Power_kW_osm_total[i] # DPerThousand(actual_power[i])

(* the invariant of a configured segment: tilt in [0, 90], azimuth in      *)
(* [0, 360), module count > 0                                              *)
ValidSegment(s) ==
    /\ FLe(Zero, s.tilt) /\ FLe(s.tilt, Fin(90, 1))
    /\ FLe(Zero, s.azimuth) /\ FLt(s.azimuth, Fin(360, 1))
    /\ s.num_modules > 0

C16_EmptySeriesIsHandled ==
    (script \in {"annual", "ramp"} /\ Len(idx) = 0) =>
        /\ pc # "fault"
        /\ AnnualDone =>
              /\ DOMAIN daily_energy_pvlib = {} /\ DOMAIN daily_energy_osm = {}
              /\ annual_energy_pvlib = Zero /\ annual_energy_osm = Zero
        /\ RampDone =>
              /\ Ramp_W_per_s_pvlib = <<>> /\ Ramp_W_per_s_osm = <<>>
        /\ (script = "ramp" /\ pc \in {"battery", "day", "stats", "coverage", "done"}) =>
              /\ max_power_swing_5min_osm \in {Zero, NaN}
              /\ max_swing_time_5min_osm = NaT

FinitePositions(power) == {i \in DOMAIN power : IsFin(power[i])}

(* the daily buckets hold the finite samples of their day and nothing else *)
FiniteBucketsOf(daily, power) ==
    \A d \in DOMAIN daily :
        daily[d] = EnergyAt(power, OnDay(d) \cap FinitePositions(power), 1)

(* C17: a sample whose power is NaN or infinite contributes zero to the    *)
(* energy aggregation: each daily total is the sum of the finite samples   *)
(* of its day and the annual total is finite                               *)
C17_NonFiniteIsZeroContribution ==
    AnnualDone =>
        /\ FiniteBucketsOf(daily_energy_pvlib, AC_Power_kW_pvlib_total)
        /\ FiniteBucketsOf(daily_energy_osm, AC_Power_kW_osm_total)
        /\ IsFin(annual_energy_pvlib)
        /\ IsFin(annual_energy_osm)

Advised == script = "ramp" /\ pc = "advised"

(* battery power = raw - smoothed with its sign convention, at sample i *)
DispatchAt(battery, smoothed, i) ==
    /\ battery[i] = FSub(DayPower[i], smoothed[i])
    /\ FLt(Zero, battery[i]) <=> FLt(smoothed[i], DayPower[i])
    /\ FLt(battery[i], Zero) <=> FLt(DayPower[i], smoothed[i])
    /\ FAdd(smoothed[i], battery[i]) = DayPower[i]

(* C18: for both smoothed trajectories of the analysis day and every       *)
(* sample, battery power = raw power - smoothed power; it is positive      *)
(* exactly when the raw output is above the smoothed target, negative      *)
(* exactly when it is below, and raw = smoothed + battery                  *)
C18_BatteryIsRawMinusSmoothed ==
    Advised =>
        /\ DOMAIN battery_basic = DOMAIN DayPower
        /\ DOMAIN battery_bell = DOMAIN DayPower
        /\ \A i \in DOMAIN DayPower :
            /\ DispatchAt(battery_basic, smoothed_basic, i)
            /\ DispatchAt(battery_bell, smoothed_bell, i)

(* C18: a day on which the battery charges at one sample and discharges at *)
(* another, under both trajectories                                        *)
C18_Witness ==
    /\ Advised
    /\ \E i, j \in DOMAIN DayPower :
        /\ FLt(Zero, battery_bell[i]) /\ FLt(battery_bell[j], Zero)
        /\ FLt(Zero, battery_basic[i]) /\ FLt(battery_basic[j], Zero)
        /\ battery_basic[i] # battery_bell[i]

(* the stages of the script that read the system power totals *)
AfterLoop ==
    {"energy5", "sort", "ramp", "ramp_osm", "swing", "battery", "day", "stats",
     "coverage", "done", "metrics", "fault", "name_error"}

(* C19: data flows forward: when the energy, ramp and swing stages run,    *)
(* both totals hold the power of all five segments; when the comparison    *)
(* and the performance metrics are about to read the smoothed trajectories *)
(* and the battery series, these exist; no run stops on an undefined name  *)
C19_DataFlowsForward ==
    script = "ramp" =>
        /\ pc \in AfterLoop =>
              /\ seg = Len(segments)
              /\ \A i \in DOMAIN idx :
                    /\ AC_Power_kW_pvlib_total[i] = ModelPower(weather[i]).pvlib
                    /\ AC_Power_kW_osm_total[i] = ModelPower(weather[i]).osm
        /\ pc \in {"done", "metrics"} => SmoothingNames \subseteq bound
        /\ pc # "name_error"

(* a series as the collection of its (timestamp, value) rows, each with    *)
(* the number of times it occurs; sort_index reorders rows and changes     *)
(* none                                                                    *)
RowsOf(ix, s) ==
    [r \in {<<ix[i], s[i]>> : i \in DOMAIN ix} |->
        Cardinality({i \in DOMAIN ix : <<ix[i], s[i]>> = r})]

(* C20: no step of the script changes a series an earlier stage produced:  *)
(* the segment loop, the energy calculation, the ramp and swing analysis   *)
(* and the battery sizing leave every timestamp's weather fields as they   *)
(* were, and after the segment loop no step changes a value of the two     *)
(* system power series                                                     *)
C20_EarlierSeriesUnchanged ==
    [][script = "ramp" =>
          /\ RowsOf(idx, weather)' = RowsOf(idx, weather)
          /\ pc \notin {"totals", "loop"} =>
                /\ RowsOf(idx, AC_Power_kW_pvlib_total)' = RowsOf(idx, AC_Power_kW_pvlib_total)
                /\ RowsOf(idx, AC_Power_kW_osm_total)' = RowsOf(idx, AC_Power_kW_osm_total)]_vars

(* C20: the analysis has run to the coverage, with power that differs      *)
(* between samples and the derived energy and ramp series added            *)
C20_Witness ==
    /\ script = "ramp" /\ pc = "done" /\ seg = Len(segments)
    /\ Len(idx) >= 2
    /\ \E i, j \in DOMAIN idx :
        /\ weather[i] # weather[j]
        /\ AC_Power_kW_osm_total[i] # AC_Power_kW_osm_total[j]
    /\ \E i \in DOMAIN idx : weather[i] = "clear" /\ idx[i] = 78900
    /\ Len(Energy_kWh_osm) = Len(idx)
    /\ Len(Ramp_W_per_s_osm) = Len(idx)

(* the stages of the script at which a column exists *)
TotalsExist == script = "ramp" /\ pc # "totals"
EnergyExists == script = "ramp" /\ pc \in AfterLoop \ {"energy5"}
RampExists == script = "ramp" /\ pc \in AfterLoop \ {"energy5", "sort", "ramp"}

(* C21: the two system power series and the energy and ramp series derived *)
(* from them hold one value per weather sample, on the index of the        *)
(* weather series: position i of each is the value of the weather sample   *)
(* at position i, for Model A and for Model B alike                        *)
C21_SeriesShareTheIndex ==
    /\ TotalsExist =>
          /\ DOMAIN AC_Power_kW_pvlib_total = DOMAIN idx
          /\ DOMAIN AC_Power_kW_osm_total = DOMAIN idx
          /\ DOMAIN weather = DOMAIN idx
    /\ (script = "ramp" /\ pc \in AfterLoop) =>
          \A i \in DOMAIN idx :
              /\ AC_Power_kW_pvlib_total[i] = ModelPower(weather[i]).pvlib
              /\ AC_Power_kW_osm_total[i] = ModelPower(weather[i]).osm
    /\ EnergyExists =>
          /\ DOMAIN Energy_kWh_pvlib = DOMAIN idx
          /\ DOMAIN Energy_kWh_osm = DOMAIN idx
          /\ \A i \in DOMAIN idx :
              /\ Energy_kWh_pvlib[i] = FMul(ModelPower(weather[i]).pvlib, Fin(5, 60))
              /\ Energy_kWh_osm[i] = FMul(ModelPower(weather[i]).osm, Fin(5, 60))
    /\ RampExists =>
          /\ DOMAIN Ramp_W_per_s_pvlib = DOMAIN idx
          /\ DOMAIN Ramp_W_per_s_osm = DOMAIN idx
          /\ DOMAIN time_diff_s = DOMAIN idx

(* C21: the ramp series exist for three samples with two timestamps and    *)
(* powers that differ between the samples and between the models           *)
C21_Witness ==
    /\ RampExists
    /\ Len(idx) = 3
    /\ \E i, j \in DOMAIN idx :
        /\ idx[i] = idx[j] /\ i # j
        /\ AC_Power_kW_osm_total[i] # AC_Power_kW_osm_total[j]
    /\ \E i \in DOMAIN idx : AC_Power_kW_osm_total[i] # AC_Power_kW_pvlib_total[i]

(* the cosine of the geometric angle between the sun and the normal of the *)
(* plane of the segment just processed, at row i                           *)
GeometricCos(i) ==
    LET s_ == segments[seg]
        zen == df["zenith"][i]
        az == df["azimuth"][i]
    IN  FAdd(FMul(CosDeg(zen), CosDeg(s_.tilt)),
             FMul(FMul(SinDeg(zen), SinDeg(s_.tilt)), CosDeg(FSub(az, s_.azimuth))))

(* cloud opacities below, at and above 100 *)
OpacityCases == {Fin(0, 1), Fin(50, 1), Fin(100, 1), Fin(150, 1)}

DayStatsDone == script = "ramp" /\ pc \in {"coverage", "done"}

(* the analysis day holds the sample of the worst swing *)
DayHoldsSwingEvent ==
    DayStatsDone =>
        \E k \in DOMAIN day_data_osm : idx[day_data_osm[k]] = max_swing_time_5min_osm.t

(* C23: the maximum 5-minute swing recomputed over the samples of the      *)
(* analysis day equals the maximum swing of the whole series used for the  *)
(* battery sizing, also when the worst swing is between the last sample of *)
(* one day and the first sample of the next; and the analysis day holds    *)
(* the timestamp of the worst swing                                        *)
C23_DaySwingIsGlobalSwing ==
    DayStatsDone =>
        /\ max_power_swing_osm = max_power_swing_5min_osm
        /\ \E k \in DOMAIN day_data_osm : idx[day_data_osm[k]] = max_swing_time_5min_osm.t

(* the calendar days of 2024, as days since 2024-01-01 *)
DaysOf2024 == 0..365

(* the local date of instant t is in 2024 *)
LocalIn2024(t) == DateOf(t, Site) \in DaysOf2024

(* C24: the year filter and the daily bucketing use the same calendar: the *)
(* filter keeps exactly the samples whose site-local date is in 2024, and  *)
(* every daily bucket is a calendar day of 2024 in site-local time         *)
C24_FilterAndBucketsShareCalendar ==
    /\ [][(script = "annual" /\ pc = "filter") => idx' = SelectSeq(idx, LocalIn2024)]_vars
    /\ [](AnnualDone =>
            /\ DOMAIN daily_energy_pvlib \subseteq DaysOf2024
            /\ DOMAIN daily_energy_osm \subseteq DaysOf2024)

(* the samples kept by the filter are those of 2024 in local time *)
FilterKeepsLocal2024 ==
    [][(script = "annual" /\ pc = "filter") => idx' = SelectSeq(idx, LocalIn2024)]_vars

(* every daily bucket is a local calendar day of 2024 *)
BucketsAreDaysOf2024 ==
    AnnualDone =>
        /\ DOMAIN daily_energy_pvlib \subseteq DaysOf2024
        /\ DOMAIN daily_energy_osm \subseteq DaysOf2024

(* the max-ramp event analysis is over *)
EventDone == script = "ramp" /\ pc = "event_done"

(* the before/after comparison ran *)
EventCompared == EventDone /\ prev_time.k = "ts"

(* the row of the analysis day labelled t, when only one is *)
DayRowOf(t) == CHOOSE j \in DayLoc(t) : TRUE

(* power_change * 1000 / 300, as printed at line 402 *)
CalculatedRamp == FDiv(FMul(power_change, Fin(1000, 1)), Fin(300, 1))

(* C25: the before/after comparison of the max-ramp event runs exactly     *)
(* when the analysis day holds a sample stamped 5 minutes before the       *)
(* max-ramp timestamp; when it runs, the sample used as 'before' is the    *)
(* immediate predecessor of the max-ramp sample and the calculated ramp    *)
(* (power change * 1000 / 300) equals the ramp stored for the max-ramp     *)
(* timestamp                                                               *)
C25_EventComparesWithPredecessor ==
    /\ EventDone => (EventCompared <=> DayLoc(max_ramp_time_osm.t - 300) # {})
    /\ EventCompared =>
        /\ DayRowOf(prev_time.t) = DayRowOf(max_ramp_time_osm.t) - 1
        /\ CalculatedRamp = max_ramp_value_osm

(* the samples of the analysis day are on the 5-minute grid: distinct      *)
(* labels, consecutive ones at least 300 s apart                           *)
DayOnGrid ==
    \A a, b \in DOMAIN day_data_osm :
        a < b => idx[day_data_osm[b]] - idx[day_data_osm[a]] >= 300

(* on a day sampled on the 5-minute grid the comparison uses the           *)
(* predecessor and reproduces the stored ramp                              *)
EventOnGridComparesWithPredecessor ==
    (EventCompared /\ DayOnGrid) =>
        /\ DayRowOf(prev_time.t) = DayRowOf(max_ramp_time_osm.t) - 1
        /\ CalculatedRamp = max_ramp_value_osm

(* a comparison that ran on a day sampled on the 5-minute grid *)
EventOnGridRan == EventCompared /\ DayOnGrid /\ FLt(Zero, FAbs(power_change))

(* the event analysis never ends in an exception *)
EventNeverFaults ==
    [][(script = "ramp" /\ pc \in {"done", "event"}) => pc' # "fault"]_vars

====
